---- MODULE Spec2Model ----
(***************************************************************************)
(* StealthSwap: the Starknet swap contract (StealthSwap, Verifier), the    *)
(* Bitcoin HTLC transaction builder and the coordinator that ties them.    *)
(***************************************************************************)
EXTENDS Integers, Sequences, FiniteSets, TLC

VARIABLES
    \* ---- StealthSwap contract storage (src/unnamed/part_008, Storage)
    swaps,            \* Map<felt252, Swap>: the entries ever written
    swap_count,       \* u64
    user_swap_count,  \* Map<ContractAddress, u64>
    user_swaps,       \* Map<(ContractAddress, u64), felt252>: entries written
    used_nullifiers,  \* Map<felt252, bool>: the keys holding true
    \* ---- Starknet environment
    now,              \* get_block_timestamp()
    \* ---- history variables
    last,             \* outcome of the call made since the last block, if any
    accepted_nullifiers,  \* the nullifiers carried by the accepted lock_swap calls
    \* ---- Bitcoin ledger and the transactions built for one HTLC
    btc_height,       \* height of the chain tip
    htlc,             \* the funded HTLC output, NoHTLC before funding
    claim_txs,        \* the transactions createClaimTx returned
    refund_txs,       \* the transactions createRefundTx returned
    confirmed,        \* the transactions the ledger confirmed
    \* ---- coordinator (routes/swap.ts)
    coord,            \* the entry of the swaps Map, NoRecord before /initiate
    \* ---- amount commitments
    commit,           \* the latest commitment the coordinator computed and the
                      \* latest the Verifier contract returned
    \* ---- timelocks of POST /api/swap/initiate
    quote,            \* the request's timelock fields and the timelocks returned
    \* ---- block height cache of the Bitcoin service (src/backend/src/index.ts)
    cachedBlockHeight,
    lastHeightFetchMs,
    lastHeightErrorMs,
    date_now,         \* Date.now(), milliseconds
    ledger_tip,       \* the height GET /blocks/tip/height would answer
    reported_heights, \* the heights the ledger has answered so far
    returned_height,  \* what the latest getBlockHeight call returned
    \* ---- createHTLCFundingTx
    funding,          \* the latest call: its inputs and what it returned
    \* ---- createHTLCScript / getHTLCAddress
    script_calls,     \* the latest two calls: parameters, script and address
    \* ---- HTLC service (src/unnamed/part_007)
    htlcs,            \* Map<string, HTLC>
    service_now,      \* Math.floor(Date.now() / 1000)
    \* ---- Bitcoin timelock of a newly created HTLC
    created_htlc,     \* the height used, lockBlocks, the timelock and the tip
    \* ---- client store (frontend/src/store/swapStore.ts)
    store,            \* swaps: Swap[] and the starknetPreimage slot
    backend_swaps,    \* the coordinator's swaps Map, in insertion order
    submitting,       \* the handleSubmit call in flight, NoSubmit otherwise
    polled            \* the getAllSwaps response fetchSwaps is waiting to apply

contractVars == <<swaps, swap_count, user_swap_count, user_swaps, used_nullifiers>>

starknetVars == <<contractVars, now, last, accepted_nullifiers>>

btcVars == <<btc_height, htlc, claim_txs, refund_txs, confirmed>>

heightVars == <<cachedBlockHeight, lastHeightFetchMs, lastHeightErrorMs, date_now,
                ledger_tip, reported_heights, returned_height>>

serviceVars == <<htlcs, service_now>>

pureVars == <<commit, quote, heightVars, funding, script_calls, serviceVars, created_htlc, store, backend_swaps, submitting, polled>>

vars == <<starknetVars, btcVars, coord, pureVars>>

----------------------------------------------------------------------------
\* Bounds of the model

MaxTime == 2        \* block timestamps range over 0..MaxTime
MaxSwaps == 2       \* swaps created in a history of accepted calls (ChainSpec)
MaxCallSwaps == 1   \* swaps created when reverted calls are recorded too (Spec)
MaxHeight == 3      \* Bitcoin block heights range over 0..MaxHeight
MaxTip == 3         \* the ledger's tip ranges over 1..MaxTip (height cache)
MaxUtxos == 3       \* UTXOs of the sender's address (createHTLCFundingTx)
MaxHtlcs == 2       \* HTLCs created in the HTLC service
MaxClientSwaps == 2 \* swaps one client submits (client store)

\* Input domains
Addresses == {1, 2, 3}      \* callers of lock_swap, complete_swap, refund_swap
Parties == {1, 2}           \* initiate_swap: participant, and caller in Spec
Initiators == {1}           \* initiate_swap: caller in ChainSpec
ZeroAddress == 0
Preimages == {1, 2}         \* complete_swap: preimage
Secrets == {1}              \* the preimages behind the hashlocks of the swaps
AmountHashes == {1}         \* initiate_swap: amount_hash
Commitments == {1, 2}       \* lock_swap: proof.amount_commitment
Nullifiers == {1, 2}        \* lock_swap: proof.nullifier
ProofHashes == {0, 1}       \* lock_swap: proof.proof_hash
Timelocks == {0, 1, 2}      \* initiate_swap: timelock

----------------------------------------------------------------------------
\* core::poseidon::poseidon_hash_span: an injective hash whose values are
\* distinct from every raw felt the model uses.
poseidon_hash_span(span) == <<"poseidon", span>>

Felt(n) == <<"felt", n>>

Hashlocks == {poseidon_hash_span(<<secret>>) : secret \in Secrets}

\* SwapStatus
Pending == "Pending"
Locked == "Locked"
Completed == "Completed"
Refunded == "Refunded"
Expired == "Expired"
SwapStatus == {Pending, Locked, Completed, Refunded, Expired}

\* The value a storage read returns for a key never written: every field
\* zero, status the #[default] variant.
DefaultSwap ==
    [id |-> Felt(0), initiator |-> ZeroAddress, participant |-> ZeroAddress,
     amount_hash |-> 0, hashlock |-> Felt(0), timelock |-> 0,
     status |-> Pending, created_at |-> 0]

\* self.swaps.entry(swap_id).read()
get_swap(swap_id) ==
    IF swap_id \in DOMAIN swaps THEN swaps[swap_id] ELSE DefaultSwap

\* self.user_swap_count.entry(user).read()
UserCount(counts, user) ==
    IF user \in DOMAIN counts THEN counts[user] ELSE 0

\* SwapProof
SwapProofs ==
    [amount_commitment : Commitments, nullifier : Nullifiers, proof_hash : ProofHashes]

Ok == "ok"

\* What the most recent call left behind: its revert message (Ok when it was
\* accepted), the event it emitted (<<>> when it reverted) and, for an
\* accepted call, its caller and calldata.
NoProof == [amount_commitment |-> 0, nullifier |-> 0, proof_hash |-> 0]

Calldata(caller, proof, preimage) ==
    [caller |-> caller, proof |-> proof, preimage |-> preimage]

NoCalldata == Calldata(ZeroAddress, NoProof, 0)

Outcome(op, swap_id, err, event, call) ==
    [op |-> op, swap_id |-> swap_id, err |-> err, event |-> event, call |-> call]

NoCall == Outcome("none", Felt(0), Ok, <<>>, NoCalldata)

NoHTLC == <<>>

NoRecord == <<>>
Null == "null"

\* Map write: self.m.entry(k).write(v)
Write(m, k, v) == [x \in (DOMAIN m) \cup {k} |-> IF x = k THEN v ELSE m[x]]

----------------------------------------------------------------------------
\* StealthSwap contract

\* Mutant: the timelock may equal the block timestamp
initiate_swap_check_AtNow(timelock, timestamp) ==
    IF ~(timelock >= timestamp) THEN "Timelock must be in future" ELSE Ok

\* initiate_swap: the assert before any write
initiate_swap_check(timelock, timestamp) ==
    IF ~(timelock > timestamp) THEN "Timelock must be in future" ELSE Ok

\* Mutant: the caller is not checked
lock_swap_check_AnyCaller(swap, proof, caller, timestamp, used) ==
    IF ~(swap.status = Pending) THEN "Swap not pending"
    ELSE IF ~(timestamp <= swap.timelock) THEN "Swap expired"
    ELSE IF proof.nullifier \in used THEN "Nullifier already used"
    ELSE IF ~(proof.amount_commitment = swap.amount_hash) THEN "Invalid commitment"
    ELSE Ok

\* Mutant: the nullifier is not checked
lock_swap_check_NoNullifier(swap, proof, caller, timestamp, used) ==
    IF ~(swap.status = Pending) THEN "Swap not pending"
    ELSE IF ~(timestamp <= swap.timelock) THEN "Swap expired"
    ELSE IF ~(caller = swap.initiator \/ caller = swap.participant) THEN "Not authorized"
    ELSE IF ~(proof.amount_commitment = swap.amount_hash) THEN "Invalid commitment"
    ELSE Ok

\* lock_swap: the asserts, in source order
lock_swap_check(swap, proof, caller, timestamp, used) ==
    IF ~(swap.status = Pending) THEN "Swap not pending"
    ELSE IF ~(timestamp <= swap.timelock) THEN "Swap expired"
    ELSE IF ~(caller = swap.initiator \/ caller = swap.participant) THEN "Not authorized"
    ELSE IF proof.nullifier \in used THEN "Nullifier already used"
    ELSE IF ~(proof.amount_commitment = swap.amount_hash) THEN "Invalid commitment"
    ELSE Ok

\* Mutant: a swap that is not Locked can be completed
complete_swap_check_AnyStatus(swap, preimage, timestamp) ==
    IF swap.status \in {Completed, Refunded} THEN "Swap not locked"
    ELSE IF ~(timestamp <= swap.timelock) THEN "Swap expired"
    ELSE IF ~(poseidon_hash_span(<<preimage>>) = swap.hashlock) THEN "Invalid preimage"
    ELSE Ok

\* Mutant: the preimage is not hashed against the hashlock
complete_swap_check_AnyPreimage(swap, preimage, timestamp) ==
    IF ~(swap.status = Locked) THEN "Swap not locked"
    ELSE IF ~(timestamp <= swap.timelock) THEN "Swap expired"
    ELSE Ok

\* complete_swap: the asserts, in source order
complete_swap_check(swap, preimage, timestamp) ==
    IF ~(swap.status = Locked) THEN "Swap not locked"
    ELSE IF ~(timestamp <= swap.timelock) THEN "Swap expired"
    ELSE IF ~(poseidon_hash_span(<<preimage>>) = swap.hashlock) THEN "Invalid preimage"
    ELSE Ok

\* Mutant: the status is not checked
refund_swap_check_AnyStatus(swap, caller, timestamp) ==
    IF ~(timestamp > swap.timelock) THEN "Timelock not expired"
    ELSE IF ~(caller = swap.initiator) THEN "Only initiator can refund"
    ELSE Ok

\* Mutant: refund is open from the timelock itself
refund_swap_check_AtTimelock(swap, caller, timestamp) ==
    IF ~(swap.status = Pending \/ swap.status = Locked) THEN "Cannot refund"
    ELSE IF ~(timestamp >= swap.timelock) THEN "Timelock not expired"
    ELSE IF ~(caller = swap.initiator) THEN "Only initiator can refund"
    ELSE Ok

\* Mutant: the participant may refund as well
refund_swap_check_AnyParty(swap, caller, timestamp) ==
    IF ~(swap.status = Pending \/ swap.status = Locked) THEN "Cannot refund"
    ELSE IF ~(timestamp > swap.timelock) THEN "Timelock not expired"
    ELSE IF ~(caller = swap.initiator \/ caller = swap.participant)
         THEN "Only initiator can refund"
    ELSE Ok

\* Mutant: the caller is not checked
refund_swap_check_NoCaller(swap, caller, timestamp) ==
    IF ~(swap.status = Pending \/ swap.status = Locked) THEN "Cannot refund"
    ELSE IF ~(timestamp > swap.timelock) THEN "Timelock not expired"
    ELSE Ok

\* Mutant: only a Pending swap can be refunded
refund_swap_check_PendingOnly(swap, caller, timestamp) ==
    IF ~(swap.status = Pending) THEN "Cannot refund"
    ELSE IF ~(timestamp > swap.timelock) THEN "Timelock not expired"
    ELSE IF ~(caller = swap.initiator) THEN "Only initiator can refund"
    ELSE Ok

\* refund_swap: the asserts, in source order
refund_swap_check(swap, caller, timestamp) ==
    IF ~(swap.status = Pending \/ swap.status = Locked) THEN "Cannot refund"
    ELSE IF ~(timestamp > swap.timelock) THEN "Timelock not expired"
    ELSE IF ~(caller = swap.initiator) THEN "Only initiator can refund"
    ELSE Ok

\* Verifier.verify_swap_proof, over a given used-nullifier set
verify_swap_proof(proof, expected_commitment, used) ==
    IF proof.amount_commitment # expected_commitment THEN FALSE
    ELSE IF proof.nullifier \in used THEN FALSE
    ELSE IF proof.proof_hash = 0 THEN FALSE
    ELSE TRUE

\* Mutant: the id leaves out the swap counter
NewSwapId_NoCount(caller, participant, amount_hash, count, timestamp) ==
    poseidon_hash_span(<<caller, participant, amount_hash, timestamp>>)

\* The swap id initiate_swap derives
NewSwapId(caller, participant, amount_hash, count, timestamp) ==
    poseidon_hash_span(<<caller, participant, amount_hash, count, timestamp>>)

\* The ids a caller can name: every id written so far and one never returned
UnknownId == NewSwapId(ZeroAddress, ZeroAddress, 0, 0, 0)
SwapIds == (DOMAIN swaps) \cup {UnknownId}

\* A reverted call: no storage write survives, no event is emitted.
Reverted(op, swap_id, err) ==
    /\ last' = Outcome(op, swap_id, err, <<>>, NoCalldata)
    /\ UNCHANGED <<contractVars, now, accepted_nullifiers>>

initiate_swap(caller, participant, amount_hash, hashlock, timelock) ==
    LET timestamp == now
        err == initiate_swap_check(timelock, timestamp)
        swap_id == NewSwapId(caller, participant, amount_hash, swap_count, timestamp)
        swap == [id |-> swap_id, initiator |-> caller, participant |-> participant,
                 amount_hash |-> amount_hash, hashlock |-> hashlock,
                 timelock |-> timelock, status |-> Pending, created_at |-> timestamp]
        user_count == UserCount(user_swap_count, caller)
        swaps1 == Write(user_swaps, <<caller, user_count>>, swap_id)
        counts1 == Write(user_swap_count, caller, user_count + 1)
        participant_count == UserCount(counts1, participant)
        swaps2 == Write(swaps1, <<participant, participant_count>>, swap_id)
        counts2 == Write(counts1, participant, participant_count + 1)
    IN  IF err # Ok
        THEN Reverted("initiate_swap", Felt(0), err)
        ELSE /\ swaps' = Write(swaps, swap_id, swap)
             /\ swap_count' = swap_count + 1
             /\ user_swaps' = swaps2
             /\ user_swap_count' = counts2
             /\ last' = Outcome("initiate_swap", swap_id, Ok,
                                <<"SwapInitiated", swap_id, caller, participant, timelock>>,
                                Calldata(caller, NoProof, 0))
             /\ UNCHANGED <<used_nullifiers, now, accepted_nullifiers>>

\* Mutant: the nullifier is marked before the commitment is checked and the
\* failed check returns without undoing the write
lock_swap_MarksFirst(caller, swap_id, proof) ==
    LET swap == get_swap(swap_id)
        timestamp == now
        err == lock_swap_check(swap, proof, caller, timestamp, used_nullifiers)
    IN  IF err = "Invalid commitment"
        THEN /\ last' = Outcome("lock_swap", swap_id, err, <<>>, NoCalldata)
             /\ used_nullifiers' = used_nullifiers \cup {proof.nullifier}
             /\ UNCHANGED <<swaps, swap_count, user_swap_count, user_swaps, now,
                            accepted_nullifiers>>
        ELSE IF err # Ok
        THEN Reverted("lock_swap", swap_id, err)
        ELSE /\ used_nullifiers' = used_nullifiers \cup {proof.nullifier}
             /\ swaps' = Write(swaps, swap_id, [swap EXCEPT !.status = Locked])
             /\ last' = Outcome("lock_swap", swap_id, Ok,
                                <<"SwapLocked", swap_id, proof.proof_hash>>,
                                Calldata(caller, proof, 0))
             /\ accepted_nullifiers' = accepted_nullifiers \cup {proof.nullifier}
             /\ UNCHANGED <<swap_count, user_swap_count, user_swaps, now>>

lock_swap(caller, swap_id, proof) ==
    LET swap == get_swap(swap_id)
        timestamp == now
        err == lock_swap_check(swap, proof, caller, timestamp, used_nullifiers)
    IN  IF err # Ok
        THEN Reverted("lock_swap", swap_id, err)
        ELSE /\ used_nullifiers' = used_nullifiers \cup {proof.nullifier}
             /\ swaps' = Write(swaps, swap_id, [swap EXCEPT !.status = Locked])
             /\ last' = Outcome("lock_swap", swap_id, Ok,
                                <<"SwapLocked", swap_id, proof.proof_hash>>,
                                Calldata(caller, proof, 0))
             /\ accepted_nullifiers' = accepted_nullifiers \cup {proof.nullifier}
             /\ UNCHANGED <<swap_count, user_swap_count, user_swaps, now>>

\* Mutant: completing rewrites the record's created_at with the block timestamp
complete_swap_Restamps(caller, swap_id, preimage) ==
    LET swap == get_swap(swap_id)
        timestamp == now
        err == complete_swap_check(swap, preimage, timestamp)
    IN  IF err # Ok
        THEN Reverted("complete_swap", swap_id, err)
        ELSE /\ swaps' = Write(swaps, swap_id,
                               [swap EXCEPT !.status = Completed, !.created_at = timestamp])
             /\ last' = Outcome("complete_swap", swap_id, Ok,
                                <<"SwapCompleted", swap_id, caller>>,
                                Calldata(caller, NoProof, preimage))
             /\ UNCHANGED <<swap_count, user_swap_count, user_swaps, used_nullifiers, now,
                            accepted_nullifiers>>

complete_swap(caller, swap_id, preimage) ==
    LET swap == get_swap(swap_id)
        timestamp == now
        err == complete_swap_check(swap, preimage, timestamp)
    IN  IF err # Ok
        THEN Reverted("complete_swap", swap_id, err)
        ELSE /\ swaps' = Write(swaps, swap_id, [swap EXCEPT !.status = Completed])
             /\ last' = Outcome("complete_swap", swap_id, Ok,
                                <<"SwapCompleted", swap_id, caller>>,
                                Calldata(caller, NoProof, preimage))
             /\ UNCHANGED <<swap_count, user_swap_count, user_swaps, used_nullifiers, now,
                            accepted_nullifiers>>

refund_swap(caller, swap_id) ==
    LET swap == get_swap(swap_id)
        timestamp == now
        err == refund_swap_check(swap, caller, timestamp)
    IN  IF err # Ok
        THEN Reverted("refund_swap", swap_id, err)
        ELSE /\ swaps' = Write(swaps, swap_id, [swap EXCEPT !.status = Refunded])
             /\ last' = Outcome("refund_swap", swap_id, Ok,
                                <<"SwapRefunded", swap_id, caller>>,
                                Calldata(caller, NoProof, 0))
             /\ UNCHANGED <<swap_count, user_swap_count, user_swaps, used_nullifiers, now,
                            accepted_nullifiers>>

\* Views

\* get_user_swaps: the entries (user, 0) .. (user, count - 1) of the index
get_user_swaps(user) ==
    [i \in 1..UserCount(user_swap_count, user) |-> user_swaps[<<user, i - 1>>]]

\* is_swap_expired: the block timestamp against the stored timelock
is_swap_expired(swap_id) ==
    LET swap == get_swap(swap_id)
        timestamp == now
    IN  timestamp > swap.timelock

\* A later block: the block timestamp moves on.
Tick ==
    /\ now < MaxTime
    /\ now' = now + 1
    /\ last' = NoCall
    /\ UNCHANGED <<contractVars, accepted_nullifiers>>

----------------------------------------------------------------------------
\* constructor: swap_count 0, every map empty
ContractInit ==
    /\ swaps = <<>>
    /\ swap_count = 0
    /\ user_swap_count = <<>>
    /\ user_swaps = <<>>
    /\ used_nullifiers = {}
    /\ now = 0
    /\ last = NoCall
    /\ accepted_nullifiers = {}

\* The calls, with their inputs drawn from the input domains
InitiateSwap(cap, callers) ==
    /\ swap_count < cap
    /\ \E caller \in callers, participant \in Parties, amount_hash \in AmountHashes,
          hashlock \in Hashlocks, timelock \in Timelocks :
           initiate_swap(caller, participant, amount_hash, hashlock, timelock)

LockSwap ==
    \E caller \in Addresses, swap_id \in SwapIds, proof \in SwapProofs :
        lock_swap(caller, swap_id, proof)

CompleteSwap ==
    \E caller \in Addresses, swap_id \in SwapIds, preimage \in Preimages :
        complete_swap(caller, swap_id, preimage)

RefundSwap ==
    \E caller \in Addresses, swap_id \in SwapIds :
        refund_swap(caller, swap_id)

\* refund_swap called by the initiator of the swap it names
RefundByInitiator ==
    \E swap_id \in DOMAIN swaps :
        refund_swap(get_swap(swap_id).initiator, swap_id)

----------------------------------------------------------------------------
\* Bitcoin HTLC: script, claim and refund transactions (bitcoin.service)

\* Input domains
Keys == {"recipient", "sender", "other"}    \* private keys (WIF)
\* A 32-byte preimage is the pair <<its first 31 bytes, its last byte>>
BtcPreimages == {<<1, 7>>, <<2, 7>>}        \* preimages offered to createClaimTx
BtcSecret == <<1, 7>>                       \* the preimage generateHashlock drew
BtcTimelocks == {1, 2}                      \* timelock heights of the HTLC
HtlcAmounts == {946, 947}                   \* amountSats locked in the HTLC
FundingTxid == "funding"

ClaimVBytes == 200          \* fee = feeRate * 200
DustLimit == 546            \* outputAmount <= 546 throws
DefaultFeeRate == 2         \* feeRate: number = 2
RefundSequence == "0xfffffffe"  \* sequence: 0xfffffffe, enables nLockTime
FinalSequence == "0xffffffff"   \* the sequence of an input added without one

SHA256(data) == <<"sha256", data>>

\* computeHashlock: SHA-256 of the preimage bytes
computeHashlock(preimage) == SHA256(preimage)
PubKey(key) == <<"pub", key>>

\* bitcoin.payments.p2wsh / p2wpkh: the output script paying to a script / key
p2wsh(script) == <<"p2wsh", SHA256(script)>>
p2wpkh(pubkey) == <<"p2wpkh", pubkey>>

\* Mutant: the refund branch is compiled without the timelock of the call
createHTLCScript_FixedTimelock(recipientPubKey, senderPubKey, hashlock, timelock) ==
    << "OP_IF",
         "OP_SHA256", hashlock, "OP_EQUALVERIFY", recipientPubKey, "OP_CHECKSIG",
       "OP_ELSE",
         0, "OP_CHECKLOCKTIMEVERIFY", "OP_DROP", senderPubKey, "OP_CHECKSIG",
       "OP_ENDIF" >>

createHTLCScript(recipientPubKey, senderPubKey, hashlock, timelock) ==
    << "OP_IF",
         "OP_SHA256", hashlock, "OP_EQUALVERIFY", recipientPubKey, "OP_CHECKSIG",
       "OP_ELSE",
         timelock, "OP_CHECKLOCKTIMEVERIFY", "OP_DROP", senderPubKey, "OP_CHECKSIG",
       "OP_ENDIF" >>

\* What a signature commits to: the transaction without its witness
Unsigned(hash, index, sequence, locktime, address, value) ==
    [hash |-> hash, index |-> index, sequence |-> sequence, locktime |-> locktime,
     address |-> address, value |-> value]

\* psbt.signInput(0, keyPair)
Sign(key, unsigned) == [pubkey |-> PubKey(key), msg |-> unsigned]

Built(unsigned, witness) == [err |-> Ok, tx |-> [body |-> unsigned, witness |-> witness]]
Thrown(message) == [err |-> message, tx |-> <<>>]

\* Mutant: the claim spends the output after the one it is given
createClaimTx_NextVout(recipientWIF, htlcScript, htlcTxid, htlcVout, htlcAmount, preimage, feeRate) ==
    LET fee == feeRate * ClaimVBytes
        outputAmount == htlcAmount - fee
        unsigned == Unsigned(htlcTxid, htlcVout + 1, FinalSequence, 0,
                             p2wpkh(PubKey(recipientWIF)), outputAmount)
    IN  IF outputAmount <= DustLimit
        THEN Thrown("Output amount too small after fees")
        ELSE Built(unsigned, <<Sign(recipientWIF, unsigned), preimage, <<1>>, htlcScript>>)

createClaimTx(recipientWIF, htlcScript, htlcTxid, htlcVout, htlcAmount, preimage, feeRate) ==
    LET fee == feeRate * ClaimVBytes
        outputAmount == htlcAmount - fee
        unsigned == Unsigned(htlcTxid, htlcVout, FinalSequence, 0,
                             p2wpkh(PubKey(recipientWIF)), outputAmount)
    IN  IF outputAmount <= DustLimit
        THEN Thrown("Output amount too small after fees")
        ELSE Built(unsigned, <<Sign(recipientWIF, unsigned), preimage, <<1>>, htlcScript>>)

createRefundTx(senderWIF, htlcScript, htlcTxid, htlcVout, htlcAmount, timelock, feeRate) ==
    LET fee == feeRate * ClaimVBytes
        outputAmount == htlcAmount - fee
        unsigned == Unsigned(htlcTxid, htlcVout, RefundSequence, timelock,
                             p2wpkh(PubKey(senderWIF)), outputAmount)
    IN  IF outputAmount <= DustLimit
        THEN Thrown("Output amount too small after fees")
        ELSE Built(unsigned, <<Sign(senderWIF, unsigned), <<>>, htlcScript>>)

\* ---- the ledger's rules for spending the HTLC output

Outpoint(tx) == <<tx.body.hash, tx.body.index>>
WitnessScript(tx) == tx.witness[Len(tx.witness)]
WitnessStack(tx) == SubSeq(tx.witness, 1, Len(tx.witness) - 1)

CheckSig(sig, pubkey, tx) == sig.pubkey = pubkey /\ sig.msg = tx.body

\* OP_CHECKLOCKTIMEVERIFY
CheckLockTime(timelock, tx) ==
    tx.body.locktime >= timelock /\ tx.body.sequence # FinalSequence

\* The script createHTLCScript compiles, run on a witness stack: the top item
\* selects the branch of OP_IF.
EvalHTLCScript(script, stack, tx) ==
    LET selector == stack[Len(stack)]
    IN  IF selector # <<>>
        THEN /\ Len(stack) = 3
             /\ SHA256(stack[2]) = script[3]
             /\ CheckSig(stack[1], script[5], tx)
        ELSE /\ Len(stack) = 2
             /\ CheckLockTime(script[8], tx)
             /\ CheckSig(stack[1], script[11], tx)

\* nLockTime: a transaction is final for the next block
IsFinal(tx, height) ==
    \/ tx.body.locktime = 0
    \/ tx.body.sequence = FinalSequence
    \/ tx.body.locktime <= height

Spent(outpoint) == \E t \in confirmed : Outpoint(t) = outpoint

ValidSpend(tx) ==
    /\ htlc # NoHTLC
    /\ Outpoint(tx) = <<htlc.txid, htlc.vout>>
    /\ ~Spent(Outpoint(tx))
    /\ p2wsh(WitnessScript(tx)) = htlc.output
    /\ tx.body.value <= htlc.amount
    /\ IsFinal(tx, btc_height)
    /\ EvalHTLCScript(WitnessScript(tx), WitnessStack(tx), tx)

\* ---- steps

BtcInit ==
    /\ btc_height = 0
    /\ htlc = NoHTLC
    /\ claim_txs = {}
    /\ refund_txs = {}
    /\ confirmed = {}

\* The funding transaction is confirmed: its first output is the HTLC.
FundHTLC ==
    /\ htlc = NoHTLC
    /\ \E timelock \in BtcTimelocks, amount \in HtlcAmounts :
        LET script == createHTLCScript(PubKey("recipient"), PubKey("sender"),
                                       SHA256(BtcSecret), timelock)
        IN  htlc' = [txid |-> FundingTxid, vout |-> 0, amount |-> amount,
                     script |-> script, output |-> p2wsh(script), timelock |-> timelock]
    /\ UNCHANGED <<btc_height, claim_txs, refund_txs, confirmed>>

\* POST /:id/claim, POST /:id/complete: createClaimTx on the record's HTLC
BuildClaimTx ==
    /\ htlc # NoHTLC
    /\ \E key \in Keys, preimage \in BtcPreimages :
        LET r == createClaimTx(key, htlc.script, htlc.txid, 0, htlc.amount, preimage,
                               DefaultFeeRate)
        IN  /\ r.err = Ok
            /\ claim_txs' = claim_txs \cup {r.tx}
    /\ UNCHANGED <<btc_height, htlc, refund_txs, confirmed>>

\* POST /:id/refund: createRefundTx on the record's HTLC
BuildRefundTx ==
    /\ htlc # NoHTLC
    /\ \E key \in Keys :
        LET r == createRefundTx(key, htlc.script, htlc.txid, 0, htlc.amount,
                                htlc.timelock, DefaultFeeRate)
        IN  /\ r.err = Ok
            /\ refund_txs' = refund_txs \cup {r.tx}
    /\ UNCHANGED <<btc_height, htlc, claim_txs, confirmed>>

\* The ledger confirms a broadcast transaction that validly spends the HTLC.
ConfirmTx ==
    /\ \E tx \in claim_txs \cup refund_txs :
        /\ ValidSpend(tx)
        /\ confirmed' = confirmed \cup {tx}
    /\ UNCHANGED <<btc_height, htlc, claim_txs, refund_txs>>

NewBlock ==
    /\ btc_height < MaxHeight
    /\ btc_height' = btc_height + 1
    /\ UNCHANGED <<htlc, claim_txs, refund_txs, confirmed>>

----------------------------------------------------------------------------
\* Coordinator routes (routes/swap.ts) and the frontend handlers that drive
\* the contract (SwapForm.tsx, SwapStatus.tsx)

TimelockMinutes == {10, 15}         \* the form's timelockMinutes
ClockTimes == {300, 900, 901, 1200, 1201}   \* later readings of the clock, seconds
SafetyMargin == 300                 \* + 300: 5 min safety margin
BlockMinutes == 10                  \* 1 block ~ 10 minutes

DefaultTimelockBlocks == 144        \* timelockBlocks = 144

\* Math.ceil(a / b)
Ceil(a, b) == (a + b - 1) \div b

\* An optional number of the request body: absent, or given with a value
Absent == <<>>
Given(n) == <<n>>

\* A request field that is present and not 0: if (timelockMinutes)
Truthy(field) == field # Absent /\ field[1] # 0

\* lockBlocks: timelockBlocks (144 when the field is absent), replaced by
\* ceil(timelockMinutes / 10) when timelockMinutes is given
lockBlocksOf(timelockBlocks, timelockMinutes) ==
    LET blocks == IF timelockBlocks = Absent THEN DefaultTimelockBlocks
                  ELSE timelockBlocks[1]
    IN  IF Truthy(timelockMinutes) THEN Ceil(timelockMinutes[1], BlockMinutes)
        ELSE blocks

\* starknetTimelock: current time + requested seconds + 5 min safety margin
starknetTimelockOf(nowSeconds, timelockMinutes, lockBlocks) ==
    LET starknetTimelockSeconds ==
            IF Truthy(timelockMinutes) THEN timelockMinutes[1] * 60
            ELSE lockBlocks * 10 * 60
    IN  nowSeconds + starknetTimelockSeconds + SafetyMargin

\* '0x' + preimage.slice(0, 62): the first 31 bytes
starknetPreimageOf(preimage) == preimage[1]

FeltHexDigits == 63                 \* a felt252 has at most 63 hex digits

\* Hex digits of a hash: a SHA-256 digest has 64, a Poseidon output is a field
\* element and has at most 63, and so has a string already cut to 63
HexLen(h) == IF h[1] = "sha256" THEN 64 ELSE 63

\* Mutant: the hash is cut to its first 63 digits whatever its length
truncateToFelt252_Always(h) == <<"slice", FeltHexDigits, h>>

\* truncateToFelt252 (POST /initiate): the first 63 hex digits of a longer string
truncateToFelt252(h) == IF HexLen(h) > FeltHexDigits THEN <<"slice", FeltHexDigits, h>> ELSE h

\* toFelt252 (frontend, initiateOnchainSwap): the same cut
toFelt252(hex) == IF HexLen(hex) > FeltHexDigits THEN <<"slice", FeltHexDigits, hex>> ELSE hex

\* proofHash = Poseidon(amountCommitment, nullifier): a non-zero felt
proofHashOf(amountCommitment, nullifier) == 1

TxidOf(tx) == <<"txid", tx.body>>

CoordInit == coord = NoRecord

\* The swap the frontend acts on (resolveSwapId)
resolveSwapId == DOMAIN swaps

\* SwapForm.handleSubmit: POST /api/swap/initiate, then initiate_swap with
\* the values of the response when a Starknet wallet is connected; a rejected
\* or failed initiation is caught and leaves the swap without a starknetTxHash
handleSubmit ==
    /\ coord = NoRecord
    /\ \E user \in Initiators, timelockMinutes \in TimelockMinutes,
          amountSats \in HtlcAmounts, amountCommitment \in AmountHashes,
          starknet \in BOOLEAN :
        LET lockBlocks == lockBlocksOf(Absent, Given(timelockMinutes))
            preimage == BtcSecret
            hashlock == SHA256(preimage)
            currentHeight == btc_height
            timelock == currentHeight + lockBlocks
            htlcScript == createHTLCScript(PubKey("recipient"), PubKey("sender"),
                                           hashlock, timelock)
            starknetTimelock == starknetTimelockOf(now, Given(timelockMinutes), lockBlocks)
            starknetPreimage == starknetPreimageOf(preimage)
            rawStarknetHashlock == poseidon_hash_span(<<starknetPreimage>>)
            starknetHashlock == truncateToFelt252(rawStarknetHashlock)
        IN  /\ IF starknet
               THEN initiate_swap(user, user, amountCommitment,
                                  toFelt252(starknetHashlock), starknetTimelock)
               ELSE UNCHANGED starknetVars
            /\ coord' = [status |-> "initiated", createdAt |-> now,
                         btc |-> [htlcScript |-> htlcScript, amountSats |-> amountSats,
                                  hashlock |-> hashlock, timelock |-> timelock,
                                  timelockBlocks |-> lockBlocks, fundingTxid |-> Null,
                                  claimTxid |-> Null],
                         starknet |-> [recipientAddress |-> user,
                                       amountCommitment |-> amountCommitment,
                                       swapId |-> Null],
                         secrets |-> [preimage |-> preimage,
                                      starknetPreimage |-> starknetPreimage],
                         response |-> [hashlock |-> starknetHashlock,
                                       amountCommitment |-> amountCommitment,
                                       timelockTimestamp |-> starknetTimelock],
                         frontend |-> [hashlock |-> starknetHashlock,
                                       starknetAmountCommitment |-> amountCommitment,
                                       starknetTxHash |-> starknet /\ last'.err = Ok]]
    /\ UNCHANGED btcVars

\* POST /api/swap/:id/fund: the funding transaction is broadcast, its first
\* output pays the HTLC address
ApiFund ==
    /\ coord # NoRecord
    /\ htlc = NoHTLC
    /\ htlc' = [txid |-> FundingTxid, vout |-> 0, amount |-> coord.btc.amountSats,
                script |-> coord.btc.htlcScript, output |-> p2wsh(coord.btc.htlcScript),
                timelock |-> coord.btc.timelock]
    /\ coord' = [coord EXCEPT !.btc.fundingTxid = FundingTxid, !.status = "btc_funded"]
    /\ UNCHANGED <<starknetVars, btc_height, claim_txs, refund_txs, confirmed>>

\* Mutant: lock_swap is submitted without reading the swap first, with the
\* commitment of the record
handleLockOnStarknet_NoRead ==
    /\ coord # NoRecord
    /\ \E user \in Initiators, swapId \in resolveSwapId, nullifier \in Nullifiers :
        LET amountCommitment == coord.starknet.amountCommitment
        IN  /\ lock_swap(user, swapId,
                         [amount_commitment |-> amountCommitment, nullifier |-> nullifier,
                          proof_hash |-> proofHashOf(amountCommitment, nullifier)])
            /\ coord' = IF last'.err = Ok
                        THEN [coord EXCEPT !.status = "starknet_locked",
                                           !.starknet.swapId = swapId]
                        ELSE coord
    /\ UNCHANGED btcVars

\* SwapStatus.handleLockOnStarknet
handleLockOnStarknet ==
    /\ coord # NoRecord
    /\ \E user \in Initiators, swapId \in resolveSwapId, nullifier \in Nullifiers :
        LET contractSwap == get_swap(swapId)
            amountCommitment == contractSwap.amount_hash
        IN  /\ contractSwap.status = Pending
            /\ lock_swap(user, swapId,
                         [amount_commitment |-> amountCommitment, nullifier |-> nullifier,
                          proof_hash |-> proofHashOf(amountCommitment, nullifier)])
            /\ coord' = IF last'.err = Ok
                        THEN [coord EXCEPT !.status = "starknet_locked",
                                           !.starknet.swapId = swapId]
                        ELSE coord
    /\ UNCHANGED btcVars

\* SwapStatus.handleComplete: checks the contract's status and the hash, then
\* submits complete_swap with the preimage; afterwards it reports 'completed'
\* to the coordinator, and a failure of that request is caught and dropped
handleComplete ==
    /\ coord # NoRecord
    /\ \E user \in Initiators, swapId \in resolveSwapId :
        LET preimageToUse == coord.secrets.starknetPreimage
            contractSwap == get_swap(swapId)
        IN  /\ contractSwap.status = Locked
            /\ toFelt252(poseidon_hash_span(<<preimageToUse>>)) =
                  toFelt252(contractSwap.hashlock)
            /\ complete_swap(user, swapId, preimageToUse)
            /\ \E updated \in BOOLEAN :
                  coord' = IF last'.err = Ok /\ updated
                           THEN [coord EXCEPT !.status = "completed",
                                              !.starknet.swapId = swapId]
                           ELSE coord
    /\ UNCHANGED btcVars

\* POST /api/swap/:id/complete: checks the preimage against the Bitcoin
\* hashlock, then builds the claim transaction that carries it
ApiComplete ==
    /\ coord # NoRecord
    /\ coord.btc.fundingTxid # Null
    /\ \E recipientWIF \in Keys, preimage \in BtcPreimages :
        LET r == createClaimTx(recipientWIF, coord.btc.htlcScript, coord.btc.fundingTxid,
                               0, coord.btc.amountSats, preimage, DefaultFeeRate)
        IN  /\ computeHashlock(preimage) = coord.btc.hashlock
            /\ r.err = Ok
            /\ claim_txs' = claim_txs \cup {r.tx}
            /\ coord' = [coord EXCEPT !.status = "completing",
                                      !.btc.claimTxid = TxidOf(r.tx)]
    /\ UNCHANGED <<starknetVars, btc_height, htlc, refund_txs, confirmed>>

\* POST /api/swap/:id/broadcast-claim: the claim transaction is broadcast and
\* the ledger accepts it
ApiBroadcastClaim ==
    /\ coord # NoRecord
    /\ \E tx \in claim_txs :
        /\ ValidSpend(tx)
        /\ confirmed' = confirmed \cup {tx}
    /\ coord' = [coord EXCEPT !.status = "completed"]
    /\ UNCHANGED <<starknetVars, btc_height, htlc, claim_txs, refund_txs>>

\* GET /api/swap/:id: the response for the stored record
ApiGetSwap ==
    [status |-> coord.status,
     starknet |-> [amountCommitment |-> coord.starknet.amountCommitment,
                   hashlock |-> coord.btc.hashlock,
                   timelockTimestamp |-> coord.createdAt +
                                         coord.btc.timelockBlocks * 10 * 60],
     secrets |-> IF coord.status # "completed"
                 THEN Given([preimage |-> coord.secrets.preimage,
                             starknetPreimage |-> coord.secrets.starknetPreimage])
                 ELSE Absent]

RetryDelay == 3600                  \* 1 hour from now
RetryMinFuture == 60                \* the backend timelock is used if > now + 60

\* SwapStatus.handleRetryStarknetInit: offered while the swap has no
\* starknetTxHash; takes the commitment and the hashlock from GET /:id when the
\* request succeeds and from the local swap otherwise. The record and the
\* local swap always carry both, so the fallbacks that generate missing
\* values are not taken.
handleRetryStarknetInit ==
    /\ coord # NoRecord
    /\ ~coord.frontend.starknetTxHash
    /\ \E address \in Initiators, fetched \in BOOLEAN :
        LET backendSwap == ApiGetSwap
            amountHash == IF fetched THEN backendSwap.starknet.amountCommitment
                          ELSE coord.frontend.starknetAmountCommitment
            hashlock == IF fetched THEN backendSwap.starknet.hashlock
                        ELSE coord.frontend.hashlock
            backendTimelock == backendSwap.starknet.timelockTimestamp
            timelock == IF fetched /\ backendTimelock > now + RetryMinFuture
                        THEN backendTimelock
                        ELSE now + RetryDelay + SafetyMargin
        IN  /\ initiate_swap(address, address, amountHash, toFelt252(hashlock), timelock)
            /\ coord' = IF last'.err = Ok
                        THEN [coord EXCEPT !.frontend.starknetTxHash = TRUE,
                                           !.frontend.starknetAmountCommitment = amountHash]
                        ELSE coord
    /\ UNCHANGED btcVars

\* The clock moves on to a later reading.
ClockTick ==
    /\ \E t \in ClockTimes : t > now /\ now' = t
    /\ last' = NoCall
    /\ UNCHANGED <<contractVars, accepted_nullifiers>>

----------------------------------------------------------------------------
\* Amount commitments: the coordinator's (POST /api/swap/initiate,
\* generateAmountProof behind POST /api/proof/generate) and the Verifier
\* contract's verify_amount_commitment

CommitAmounts == {0, 1, 546, 947, 100000, 2147483647}   \* amounts below 2^64
BlindingFactors == {1, 2, 3, 4, 5, 6}                   \* blinding factors

NoCommitment == <<>>

\* The two 128-bit limbs of a u256; an amount below 2^64 is its own low limb
U256Low(amount) == amount
U256High(amount) == 0

\* hash.computePoseidonHashOnElements
computePoseidonHashOnElements(elements) == poseidon_hash_span(elements)

\* Verifier.verify_amount_commitment(amount: u256, blinding_factor)
verify_amount_commitment(amount, blinding_factor) ==
    LET amount_low == U256Low(amount)
        amount_high == U256High(amount)
    IN  poseidon_hash_span(<<amount_low, amount_high, blinding_factor>>)

\* POST /api/swap/initiate: amountCommitment
amountCommitmentOf(amountSats, blindingFactor) ==
    computePoseidonHashOnElements(<<amountSats, blindingFactor>>)

\* generateAmountProof: commitment, for the blinding factor it drew
generateAmountProof(amount, blindingFactor) ==
    LET amountLow == U256Low(amount)
        amountHigh == U256High(amount)
    IN  computePoseidonHashOnElements(<<amountLow, amountHigh, blindingFactor>>)

Commitment(by, amount, blinding, value) ==
    [by |-> by, amount |-> amount, blinding |-> blinding, commitment |-> value]

CommitInit == commit = [coordinator |-> NoCommitment, contract |-> NoCommitment]

ApiInitiateCommitment ==
    \E amountSats \in CommitAmounts, blindingFactor \in BlindingFactors :
        commit' = [commit EXCEPT !.coordinator =
                      Commitment("initiate", amountSats, blindingFactor,
                                 amountCommitmentOf(amountSats, blindingFactor))]

ApiProofGenerate ==
    \E amount \in CommitAmounts, blindingFactor \in BlindingFactors :
        commit' = [commit EXCEPT !.coordinator =
                      Commitment("generate", amount, blindingFactor,
                                 generateAmountProof(amount, blindingFactor))]

VerifyAmountCommitment ==
    \E amount \in CommitAmounts, blinding_factor \in BlindingFactors :
        commit' = [commit EXCEPT !.contract =
                      Commitment("verifier", amount, blinding_factor,
                                 verify_amount_commitment(amount, blinding_factor))]

----------------------------------------------------------------------------
\* The timelocks POST /api/swap/initiate chooses, over the request's fields

RequestMinutes == {Absent} \cup {Given(n) : n \in {0, 1, 10, 11, 15, 60, -10}}
RequestBlocks == {Absent} \cup {Given(n) : n \in {1, 6}}
RequestTimes == {0, 300, 901}                           \* Date.now() / 1000

NoQuote == <<>>

QuoteInit == quote = NoQuote

ApiInitiateTimelocks ==
    \E timelockMinutes \in RequestMinutes, timelockBlocks \in RequestBlocks,
       nowSeconds \in RequestTimes, currentHeight \in 0..MaxHeight :
        LET lockBlocks == lockBlocksOf(timelockBlocks, timelockMinutes)
            timelock == currentHeight + lockBlocks
        IN  quote' = [timelockMinutes |-> timelockMinutes,
                      timelockBlocks |-> timelockBlocks,
                      now |-> nowSeconds, currentHeight |-> currentHeight,
                      lockBlocks |-> lockBlocks, timelock |-> timelock,
                      timelockTimestamp |->
                          starknetTimelockOf(nowSeconds, timelockMinutes, lockBlocks)]

----------------------------------------------------------------------------
\* getBlockHeight and its cache (src/backend/src/index.ts)

HEIGHT_CACHE_TTL_MS == 30000
HEIGHT_ERROR_COOLDOWN_MS == 300000

\* Readings of Date.now(), milliseconds
ClockMs == {1000, 20000, 40000, 200000, 320000, 400000, 700000}

NoHeight == -1      \* no call of getBlockHeight yet

HeightInit ==
    /\ cachedBlockHeight = 0
    /\ lastHeightFetchMs = 0
    /\ lastHeightErrorMs = 0
    /\ date_now = 1000
    /\ ledger_tip = 1
    /\ reported_heights = {}
    /\ returned_height = NoHeight

\* getBlockHeight: answers from the cache during the cooldown after an error
\* and within the TTL of a fetch; otherwise queries the ledger, and a failed
\* query (fetched = FALSE) is caught
getBlockHeight ==
    /\ \E fetched \in BOOLEAN :
        IF lastHeightErrorMs # 0 /\ date_now - lastHeightErrorMs < HEIGHT_ERROR_COOLDOWN_MS
        THEN /\ returned_height' = cachedBlockHeight
             /\ UNCHANGED <<cachedBlockHeight, lastHeightFetchMs, lastHeightErrorMs,
                            reported_heights>>
        ELSE IF cachedBlockHeight > 0 /\ date_now - lastHeightFetchMs < HEIGHT_CACHE_TTL_MS
        THEN /\ returned_height' = cachedBlockHeight
             /\ UNCHANGED <<cachedBlockHeight, lastHeightFetchMs, lastHeightErrorMs,
                            reported_heights>>
        ELSE IF fetched
        THEN /\ cachedBlockHeight' = ledger_tip
             /\ lastHeightFetchMs' = date_now
             /\ returned_height' = ledger_tip
             /\ reported_heights' = reported_heights \cup {ledger_tip}
             /\ UNCHANGED lastHeightErrorMs
        ELSE /\ lastHeightErrorMs' = date_now
             /\ returned_height' = cachedBlockHeight
             /\ UNCHANGED <<cachedBlockHeight, lastHeightFetchMs, reported_heights>>
    /\ UNCHANGED <<date_now, ledger_tip>>

\* Date.now() moves on to a later reading
DateTick ==
    /\ \E t \in ClockMs : t > date_now /\ date_now' = t
    /\ UNCHANGED <<cachedBlockHeight, lastHeightFetchMs, lastHeightErrorMs, ledger_tip,
                   reported_heights, returned_height>>

\* The ledger's chain grows by one block
LedgerBlock ==
    /\ ledger_tip < MaxTip
    /\ ledger_tip' = ledger_tip + 1
    /\ UNCHANGED <<cachedBlockHeight, lastHeightFetchMs, lastHeightErrorMs, date_now,
                   reported_heights, returned_height>>

----------------------------------------------------------------------------
\* createHTLCFundingTx (src/backend/src/index.ts)

FundingVBytes == 150            \* estimatedSize = 150
FundingDustThreshold == 546     \* if (change > 546)

UtxoValues == {300, 896, 1000}          \* values of the sender's UTXOs, satoshis
FundingAmounts == {500, 1000, 1500}     \* amountSats
FundingFeeRates == {1, 2}               \* feeRate, sats/vbyte; 2 is the default

\* The lists getUTXOs can answer: the j-th UTXO is output j of "utxo"
UtxoLists ==
    UNION {[1..n -> UtxoValues] : n \in 0..MaxUtxos}

Utxo(values, j) == [txid |-> "utxo", vout |-> j, value |-> values[j]]

NoFunding == <<>>

\* for (const utxo of utxos) { selectedUtxos.push(utxo); inputSum += utxo.value;
\*                             if (inputSum >= totalNeeded) break; }
RECURSIVE SelectUtxos(_, _, _, _, _)
SelectUtxos(utxos, i, selectedUtxos, inputSum, totalNeeded) ==
    IF i > Len(utxos)
    THEN [selectedUtxos |-> selectedUtxos, inputSum |-> inputSum]
    ELSE LET selected == Append(selectedUtxos, utxos[i])
             sum == inputSum + utxos[i].value
         IN  IF sum >= totalNeeded
             THEN [selectedUtxos |-> selected, inputSum |-> sum]
             ELSE SelectUtxos(utxos, i + 1, selected, sum, totalNeeded)

FundingTx(inputs, outputs, key) ==
    [err |-> Ok,
     tx |-> [inputs |-> inputs, outputs |-> outputs,
             witness |-> [i \in 1..Len(inputs) |->
                            Sign(key, [inputs |-> inputs, outputs |-> outputs])]]]

\* Mutant: the change output is added whatever its value
createHTLCFundingTx_DustChange(senderWIF, htlcScript, amountSats, feeRate, utxos) ==
    LET fee == feeRate * FundingVBytes
        totalNeeded == amountSats + fee
        picked == SelectUtxos(utxos, 1, <<>>, 0, totalNeeded)
        change == picked.inputSum - amountSats - fee
        htlcOutput == [script |-> p2wsh(htlcScript), value |-> amountSats]
        changeOutput == [script |-> p2wpkh(PubKey(senderWIF)), value |-> change]
    IN  IF Len(utxos) = 0 THEN Thrown("No UTXOs found")
        ELSE IF picked.inputSum < totalNeeded THEN Thrown("Insufficient funds")
        ELSE FundingTx(picked.selectedUtxos, <<htlcOutput, changeOutput>>, senderWIF)

createHTLCFundingTx(senderWIF, htlcScript, amountSats, feeRate, utxos) ==
    LET fee == feeRate * FundingVBytes
        totalNeeded == amountSats + fee
        picked == SelectUtxos(utxos, 1, <<>>, 0, totalNeeded)
        change == picked.inputSum - amountSats - fee
        htlcOutput == [script |-> p2wsh(htlcScript), value |-> amountSats]
        changeOutput == [script |-> p2wpkh(PubKey(senderWIF)), value |-> change]
    IN  IF Len(utxos) = 0 THEN Thrown("No UTXOs found")
        ELSE IF picked.inputSum < totalNeeded THEN Thrown("Insufficient funds")
        ELSE FundingTx(picked.selectedUtxos,
                       IF change > FundingDustThreshold
                       THEN <<htlcOutput, changeOutput>>
                       ELSE <<htlcOutput>>,
                       senderWIF)

FundingInit == funding = NoFunding

\* One call of createHTLCFundingTx for the sender's key, with the UTXO list
\* the ledger answers
CreateFundingTx ==
    \E values \in UtxoLists, amountSats \in FundingAmounts, feeRate \in FundingFeeRates,
       timelock \in BtcTimelocks :
        LET utxos == [j \in 1..Len(values) |-> Utxo(values, j)]
            htlcScript == createHTLCScript(PubKey("recipient"), PubKey("sender"),
                                           SHA256(BtcSecret), timelock)
        IN  funding' = [senderWIF |-> "sender", htlcScript |-> htlcScript,
                        amountSats |-> amountSats, feeRate |-> feeRate, utxos |-> utxos,
                        result |-> createHTLCFundingTx("sender", htlcScript, amountSats,
                                                       feeRate, utxos)]

----------------------------------------------------------------------------
\* createHTLCScript and getHTLCAddress, call by call

\* getHTLCAddress: the testnet P2WSH address of the script
getHTLCAddress(htlcScript) == <<"tb1", p2wsh(htlcScript)>>

ScriptParams ==
    [recipientPubKey : {PubKey("recipient"), PubKey("other")},
     senderPubKey : {PubKey("sender"), PubKey("other")},
     hashlock : {SHA256(p) : p \in BtcPreimages},
     timelock : BtcTimelocks]

NoScriptCalls == <<>>

ScriptCall(params) ==
    LET script == createHTLCScript(params.recipientPubKey, params.senderPubKey,
                                   params.hashlock, params.timelock)
    IN  [params |-> params, script |-> script, address |-> getHTLCAddress(script)]

ScriptInit == script_calls = NoScriptCalls

\* A call of createHTLCScript followed by getHTLCAddress; the call before it
\* is kept for comparison
CreateScript ==
    \E params \in ScriptParams :
        script_calls' = [previous |-> IF script_calls = NoScriptCalls
                                      THEN ScriptCall(params)
                                      ELSE script_calls.latest,
                         latest |-> ScriptCall(params)]

----------------------------------------------------------------------------
\* HTLC service (src/unnamed/part_007): mock HTLCs kept in memory

ServiceTimes == {60, 61, 120, 121}      \* later readings of the clock, seconds
ServiceMinutes == {1, 2}                \* timelockMinutes
ServicePreimages == {1, 2}              \* preimages offered to completeHTLC
ServiceSecret == 1                      \* the preimage behind the hashlock

\* computeHashlock of the service: hash.computePoseidonHash(preimage, '0')
computePoseidonHashlock(preimage) == <<"poseidon", <<preimage, 0>>>>

HtlcIds == 1..MaxHtlcs

ServiceInit ==
    /\ htlcs = <<>>
    /\ service_now = 0

createHTLC ==
    /\ Len(htlcs) < MaxHtlcs
    /\ \E timelockMinutes \in ServiceMinutes :
        LET id == Len(htlcs) + 1
            htlcRecord == [id |-> id, hashlock |-> computePoseidonHashlock(ServiceSecret),
                           timelock |-> service_now + timelockMinutes * 60,
                           status |-> "pending", createdAt |-> service_now]
        IN  htlcs' = Append(htlcs, htlcRecord)
    /\ UNCHANGED service_now

lockHTLC ==
    /\ \E htlcId \in HtlcIds :
        htlcs' = IF htlcId \notin DOMAIN htlcs \/ htlcs[htlcId].status # "pending"
                 THEN htlcs
                 ELSE [htlcs EXCEPT ![htlcId].status = "locked"]
    /\ UNCHANGED service_now

completeHTLC ==
    /\ \E htlcId \in HtlcIds, preimage \in ServicePreimages :
        htlcs' = IF htlcId \notin DOMAIN htlcs \/ htlcs[htlcId].status # "locked"
                 THEN htlcs
                 ELSE IF computePoseidonHashlock(preimage) # htlcs[htlcId].hashlock
                 THEN htlcs
                 ELSE [htlcs EXCEPT ![htlcId].status = "completed"]
    /\ UNCHANGED service_now

refundHTLC ==
    /\ \E htlcId \in HtlcIds :
        htlcs' = IF htlcId \notin DOMAIN htlcs
                 THEN htlcs
                 ELSE IF service_now <= htlcs[htlcId].timelock
                 THEN htlcs
                 ELSE [htlcs EXCEPT ![htlcId].status = "refunded"]
    /\ UNCHANGED service_now

checkExpiredHTLCs ==
    /\ htlcs' = [id \in DOMAIN htlcs |->
                    IF htlcs[id].status \in {"pending", "locked"}
                       /\ service_now > htlcs[id].timelock
                    THEN [htlcs[id] EXCEPT !.status = "expired"]
                    ELSE htlcs[id]]
    /\ UNCHANGED service_now

\* The clock of the service moves on to a later reading
ServiceTick ==
    /\ \E t \in ServiceTimes : t > service_now /\ service_now' = t
    /\ UNCHANGED htlcs

----------------------------------------------------------------------------
\* The Bitcoin timelock POST /api/swap/initiate and POST /api/htlc/create
\* compile into a new HTLC: the height getBlockHeight returns plus lockBlocks

NoCreatedHtlc == <<>>

CreatedInit == created_htlc = NoCreatedHtlc

\* POST /api/htlc/create: timelockBlocks || 144
htlcCreateLockBlocks(timelockBlocks) ==
    IF Truthy(timelockBlocks) THEN timelockBlocks[1] ELSE DefaultTimelockBlocks

CreatedHtlc(route, currentHeight, lockBlocks) ==
    [route |-> route, currentHeight |-> currentHeight, lockBlocks |-> lockBlocks,
     timelock |-> currentHeight + lockBlocks, tip |-> ledger_tip]

\* POST /api/swap/initiate up to the HTLC script
ApiInitiateHtlc ==
    /\ getBlockHeight
    /\ \E timelockBlocks \in RequestBlocks, timelockMinutes \in {Absent, Given(10)} :
        created_htlc' = CreatedHtlc("swap/initiate", returned_height',
                                    lockBlocksOf(timelockBlocks, timelockMinutes))

\* POST /api/htlc/create up to the HTLC script
ApiHtlcCreate ==
    /\ getBlockHeight
    /\ \E timelockBlocks \in RequestBlocks :
        created_htlc' = CreatedHtlc("htlc/create", returned_height',
                                    htlcCreateLockBlocks(timelockBlocks))

----------------------------------------------------------------------------
\* The client over several swaps: the store (store/swapStore.ts), the
\* SwapHistory poll and the handlers of SwapForm and SwapStatus.  The
\* coordinator's ids are 1, 2, ...; the preimage the coordinator draws for
\* record n is <<n, 7>>.  A transaction hash is written as the swap id its
\* receipt carries in the SwapInitiated event.

ClientUser == 1             \* the address of the connected wallet
ClientMinutes == 60         \* useState(60): the form's timelockMinutes
NoSubmit == <<>>

ClientInit ==
    /\ store = [swaps |-> <<>>, starknetPreimage |-> Absent]
    /\ backend_swaps = <<>>
    /\ submitting = NoSubmit
    /\ polled = Absent

\* addSwap: swaps: [swap, ...state.swaps]
addSwap(state, swap) == [state EXCEPT !.swaps = <<swap>> \o state.swaps]

\* updateSwap(swapId, {starknetSwapId}): every entry with the id is updated
updateSwap(state, swapId, starknetSwapId) ==
    [state EXCEPT !.swaps =
        [i \in DOMAIN state.swaps |->
            IF state.swaps[i].id = swapId
            THEN [state.swaps[i] EXCEPT !.starknetSwapId = starknetSwapId]
            ELSE state.swaps[i]]]

\* updateSwapStatus(swapId, status)
updateSwapStatus(state, swapId, status) ==
    [state EXCEPT !.swaps =
        [i \in DOMAIN state.swaps |->
            IF state.swaps[i].id = swapId
            THEN [state.swaps[i] EXCEPT !.status = status]
            ELSE state.swaps[i]]]

\* POST /:id/status: the status of the body is assigned
ApiStatus(records, id, status) ==
    [i \in DOMAIN records |->
        IF records[i].id = id THEN [records[i] EXCEPT !.status = status]
        ELSE records[i]]

\* SwapForm.handleSubmit up to the wallet call: POST /api/swap/initiate adds a
\* record with fresh secrets, and the secrets of the response go to the store
handleSubmitRequest ==
    /\ submitting = NoSubmit
    /\ Len(backend_swaps) < MaxClientSwaps
    /\ \E amountCommitment \in AmountHashes :
        LET id == Len(backend_swaps) + 1
            preimage == <<id, 7>>
            starknetPreimage == starknetPreimageOf(preimage)
            starknetHashlock ==
                truncateToFelt252(poseidon_hash_span(<<starknetPreimage>>))
            lockBlocks == lockBlocksOf(Absent, Given(ClientMinutes))
            starknetTimelock == starknetTimelockOf(now, Given(ClientMinutes), lockBlocks)
        IN  /\ backend_swaps' =
                  Append(backend_swaps,
                         [id |-> id, status |-> "initiated",
                          secrets |-> [preimage |-> preimage,
                                       starknetPreimage |-> starknetPreimage]])
            /\ store' = [store EXCEPT !.starknetPreimage = Given(starknetPreimage)]
            /\ submitting' = [id |-> id, amountCommitment |-> amountCommitment,
                              hashlock |-> starknetHashlock,
                              timelockTimestamp |-> starknetTimelock]
    /\ UNCHANGED <<starknetVars, polled>>

\* SwapForm.handleSubmit from the wallet call: initiate_swap when a wallet is
\* connected, then addSwap; a failed initiation leaves the swap without a
\* starknetTxHash
handleSubmitAddSwap ==
    /\ submitting # NoSubmit
    /\ \E starknet \in BOOLEAN :
        /\ IF starknet
           THEN initiate_swap(ClientUser, ClientUser, submitting.amountCommitment,
                              toFelt252(submitting.hashlock),
                              submitting.timelockTimestamp)
           ELSE UNCHANGED starknetVars
        /\ LET swap == [id |-> submitting.id, status |-> "initiated",
                        starknetTxHash |-> IF starknet /\ last'.err = Ok
                                           THEN Given(last'.swap_id) ELSE Absent,
                        starknetSwapId |-> Absent]
           IN  store' = addSwap(store, swap)
    /\ submitting' = NoSubmit
    /\ UNCHANGED <<backend_swaps, polled>>

\* GET /api/swap, awaited by fetchSwaps: id and status of every record
getAllSwaps ==
    /\ polled = Absent
    /\ polled' = Given([i \in DOMAIN backend_swaps |->
                           [id |-> backend_swaps[i].id,
                            status |-> backend_swaps[i].status]])
    /\ UNCHANGED <<starknetVars, store, backend_swaps, submitting>>

\* statusPriority[status] || 0
statusPriority(status) ==
    CASE status = "initiated" -> 1
      [] status = "btc_locked" -> 2
      [] status = "starknet_locked" -> 3
      [] status \in {"completed", "refunded"} -> 4
      [] OTHER -> 0

\* currentSwaps.find((s) => s.id === id): the index of the first entry, 0 if none
FindById(list, id) ==
    IF \E i \in DOMAIN list : list[i].id = id
    THEN CHOOSE i \in DOMAIN list :
            list[i].id = id /\ \A j \in 1..(i - 1) : list[j].id # id
    ELSE 0

\* The entry fetchSwaps builds for one swap of the response
MappedSwap(currentSwaps, swap) ==
    LET at == FindById(currentSwaps, swap.id)
    IN  IF at = 0
        THEN [id |-> swap.id, status |-> swap.status,
              starknetTxHash |-> Absent, starknetSwapId |-> Absent]
        ELSE LET existing == currentSwaps[at]
             IN  [id |-> swap.id,
                  status |-> IF statusPriority(existing.status) >=
                                    statusPriority(swap.status)
                             THEN existing.status ELSE swap.status,
                  starknetTxHash |-> existing.starknetTxHash,
                  starknetSwapId |-> existing.starknetSwapId]

\* Array.from(new Map(combined.map((s) => [s.id, s])).values()): an id keeps
\* the place of its first entry and the value of its last
UniqueById(combined) ==
    LET firsts == SelectSeq([i \in DOMAIN combined |-> i],
                            LAMBDA i : \A j \in 1..(i - 1) : combined[j].id # combined[i].id)
        lastOf(i) == CHOOSE k \in DOMAIN combined :
                        /\ combined[k].id = combined[i].id
                        /\ \A j \in (k + 1)..Len(combined) : combined[j].id # combined[i].id
    IN  [n \in DOMAIN firsts |-> combined[lastOf(firsts[n])]]

\* fetchSwaps after the response arrived: the store read at that moment is
\* merged with the response and written back with setSwaps
fetchSwaps ==
    /\ polled # Absent
    /\ LET response == polled[1]
           currentSwaps == store.swaps
           mappedSwaps == [i \in DOMAIN response |-> MappedSwap(currentSwaps, response[i])]
           existingOnly == SelectSeq(currentSwaps,
                               LAMBDA s : ~ \E i \in DOMAIN response : response[i].id = s.id)
       IN  store' = [store EXCEPT !.swaps = UniqueById(mappedSwaps \o existingOnly)]
    /\ polled' = Absent
    /\ UNCHANGED <<starknetVars, backend_swaps, submitting>>

\* getLatestUserSwapId: the last entry of get_user_swaps(address)
getLatestUserSwapId(userAddress) ==
    LET user_list == get_user_swaps(userAddress)
    IN  IF Len(user_list) > 0 THEN Given(user_list[Len(user_list)]) ELSE Absent

\* SwapStatus.resolveSwapId for one swap of the store: the id already stored,
\* else the id in the receipt of the swap's transaction when the receipt is
\* found, else the latest id of the user's swaps
resolveSwapIdOf(swap, receiptFound, address) ==
    IF swap.starknetSwapId # Absent THEN swap.starknetSwapId
    ELSE IF swap.starknetTxHash # Absent /\ receiptFound THEN swap.starknetTxHash
    ELSE IF getLatestUserSwapId(address) # Absent THEN getLatestUserSwapId(address)
    ELSE Absent

\* The store after resolveSwapId: a resolved id is written with updateSwap
ResolvedStore(state, swap, swapId) ==
    IF swap.starknetSwapId = Absent /\ swapId # Absent
    THEN updateSwap(state, swap.id, swapId)
    ELSE state

\* The record GET /api/swap/:id reads
BackendSwap(id) == backend_swaps[CHOOSE i \in DOMAIN backend_swaps : backend_swaps[i].id = id]

\* handleComplete: starknetPreimage of the store, and the secrets of the
\* coordinator's record only when the store has none
preimageToUse(state, swap) ==
    IF state.starknetPreimage # Absent THEN state.starknetPreimage
    ELSE Given(BackendSwap(swap.id).secrets.starknetPreimage)

\* SwapStatus.handleLockOnStarknet for the swap at place i of the store
handleLockOnStarknetAt(i) ==
    LET swap == store.swaps[i]
    IN  /\ swap.starknetTxHash # Absent
        /\ \E receiptFound \in BOOLEAN, updated \in BOOLEAN,
              nullifier \in Nullifiers \ used_nullifiers :
            LET swapId == resolveSwapIdOf(swap, receiptFound, ClientUser)
                resolved == ResolvedStore(store, swap, swapId)
                contractSwap == get_swap(swapId[1])
                amountCommitment == contractSwap.amount_hash
            IN  IF swapId = Absent \/ contractSwap.status # Pending
                THEN /\ store' = resolved
                     /\ UNCHANGED <<starknetVars, backend_swaps>>
                ELSE /\ lock_swap(ClientUser, swapId[1],
                                  [amount_commitment |-> amountCommitment,
                                   nullifier |-> nullifier,
                                   proof_hash |-> proofHashOf(amountCommitment, nullifier)])
                     /\ IF last'.err = Ok
                        THEN /\ store' = updateSwapStatus(resolved, swap.id, "starknet_locked")
                             /\ backend_swaps' =
                                   IF updated
                                   THEN ApiStatus(backend_swaps, swap.id, "starknet_locked")
                                   ELSE backend_swaps
                        ELSE /\ store' = resolved
                             /\ UNCHANGED backend_swaps
        /\ UNCHANGED <<submitting, polled>>

\* SwapStatus.handleComplete for the swap at place i of the store
handleCompleteAt(i) ==
    LET swap == store.swaps[i]
    IN  /\ \E receiptFound \in BOOLEAN, updated \in BOOLEAN :
            LET swapId == resolveSwapIdOf(swap, receiptFound, ClientUser)
                resolved == ResolvedStore(store, swap, swapId)
                preimage == preimageToUse(store, swap)
                recovered == [resolved EXCEPT !.starknetPreimage = preimage]
                contractSwap == get_swap(swapId[1])
            IN  IF swapId = Absent
                THEN /\ store' = resolved
                     /\ UNCHANGED <<starknetVars, backend_swaps>>
                ELSE IF \/ contractSwap.status # Locked
                        \/ toFelt252(poseidon_hash_span(<<preimage[1]>>)) #
                              toFelt252(contractSwap.hashlock)
                THEN /\ store' = recovered
                     /\ UNCHANGED <<starknetVars, backend_swaps>>
                ELSE /\ complete_swap(ClientUser, swapId[1], preimage[1])
                     /\ IF last'.err = Ok
                        THEN /\ store' = updateSwapStatus(recovered, swap.id, "completed")
                             /\ backend_swaps' =
                                   IF updated
                                   THEN ApiStatus(backend_swaps, swap.id, "completed")
                                   ELSE backend_swaps
                        ELSE /\ store' = recovered
                             /\ UNCHANGED backend_swaps
        /\ UNCHANGED <<submitting, polled>>

----------------------------------------------------------------------------
\* Specifications

Init == ContractInit /\ BtcInit /\ CoordInit /\ CommitInit /\ QuoteInit /\ HeightInit /\ FundingInit /\ ScriptInit /\ ServiceInit
        /\ CreatedInit /\ ClientInit

\* The contract alone, every call a step, reverted ones included
Initiate == InitiateSwap(MaxCallSwaps, Parties) /\ UNCHANGED <<btcVars, coord, pureVars>>
Lock == LockSwap /\ UNCHANGED <<btcVars, coord, pureVars>>
Complete == CompleteSwap /\ UNCHANGED <<btcVars, coord, pureVars>>
Refund == RefundSwap /\ UNCHANGED <<btcVars, coord, pureVars>>
Block == Tick /\ UNCHANGED <<btcVars, coord, pureVars>>

Next == Initiate \/ Lock \/ Complete \/ Refund \/ Block

Spec == Init /\ [][Next]_vars

\* The history the chain keeps: a reverted call leaves the state as it was,
\* so only the accepted calls are steps.
Accepted == last'.err = Ok
AcceptedInitiate ==
    InitiateSwap(MaxSwaps, Initiators) /\ Accepted /\ UNCHANGED <<btcVars, coord, pureVars>>
AcceptedLock == LockSwap /\ Accepted /\ UNCHANGED <<btcVars, coord, pureVars>>
AcceptedComplete == CompleteSwap /\ Accepted /\ UNCHANGED <<btcVars, coord, pureVars>>
AcceptedRefund == RefundSwap /\ Accepted /\ UNCHANGED <<btcVars, coord, pureVars>>

ChainNext ==
    AcceptedInitiate \/ AcceptedLock \/ AcceptedComplete \/ AcceptedRefund \/ Block

ChainSpec == Init /\ [][ChainNext]_vars

\* The chain with time that advances and initiators that refund: the block
\* timestamp keeps moving while it is below MaxTime, and an initiator whose
\* refund would be accepted eventually sends it. Timelocks lie below MaxTime,
\* so that every swap can be seen to expire.
LiveInitiate ==
    /\ AcceptedInitiate
    /\ swaps'[last'.swap_id].timelock < MaxTime
InitiatorRefund == RefundByInitiator /\ Accepted /\ UNCHANGED <<btcVars, coord, pureVars>>

LiveNext ==
    \/ LiveInitiate \/ AcceptedLock \/ AcceptedComplete \/ AcceptedRefund
    \/ InitiatorRefund \/ Block

LiveSpec ==
    Init /\ [][LiveNext]_vars /\ WF_vars(Block) /\ WF_vars(InitiatorRefund)

\* The Bitcoin side alone: one HTLC, the transactions built for it, the ledger
Fund == FundHTLC /\ UNCHANGED <<starknetVars, coord, pureVars>>
BuildClaim == BuildClaimTx /\ UNCHANGED <<starknetVars, coord, pureVars>>
BuildRefund == BuildRefundTx /\ UNCHANGED <<starknetVars, coord, pureVars>>
Confirm == ConfirmTx /\ UNCHANGED <<starknetVars, coord, pureVars>>
MineBlock == NewBlock /\ UNCHANGED <<starknetVars, coord, pureVars>>

BtcNext == Fund \/ BuildClaim \/ BuildRefund \/ Confirm \/ MineBlock

BtcSpec == Init /\ [][BtcNext]_vars

\* One swap driven through the coordinator and the frontend, both chains
\* moving on their own
Clock == ClockTick /\ UNCHANGED <<btcVars, coord, pureVars>>
Mine == NewBlock /\ UNCHANGED <<starknetVars, coord, pureVars>>

Submit == handleSubmit /\ UNCHANGED pureVars
FundSwap == ApiFund /\ UNCHANGED pureVars
LockOnStarknet == handleLockOnStarknet /\ UNCHANGED pureVars
CompleteOnStarknet == handleComplete /\ UNCHANGED pureVars
ClaimBtc == ApiComplete /\ UNCHANGED pureVars
BroadcastClaim == ApiBroadcastClaim /\ UNCHANGED pureVars

CoordNext ==
    \/ Submit \/ FundSwap \/ LockOnStarknet \/ CompleteOnStarknet
    \/ ClaimBtc \/ BroadcastClaim \/ Clock \/ Mine

CoordSpec == Init /\ [][CoordNext]_vars

\* The initiation of one swap on Starknet: the submit path and the retry path
RetryOnStarknet == handleRetryStarknetInit /\ UNCHANGED pureVars

RetryNext == Submit \/ RetryOnStarknet \/ Clock \/ Mine

RetrySpec == Init /\ [][RetryNext]_vars

\* The commitments computed off chain and by the Verifier contract
InitiateCommitment ==
    ApiInitiateCommitment /\ UNCHANGED <<starknetVars, btcVars, coord, quote, heightVars, funding, script_calls, serviceVars, created_htlc, store, backend_swaps, submitting, polled>>
ProofGenerate == ApiProofGenerate /\ UNCHANGED <<starknetVars, btcVars, coord, quote, heightVars, funding, script_calls, serviceVars, created_htlc, store, backend_swaps, submitting, polled>>
VerifierCommitment ==
    VerifyAmountCommitment /\ UNCHANGED <<starknetVars, btcVars, coord, quote, heightVars, funding, script_calls, serviceVars, created_htlc, store, backend_swaps, submitting, polled>>

CommitNext == InitiateCommitment \/ ProofGenerate \/ VerifierCommitment

CommitSpec == Init /\ [][CommitNext]_vars

\* The timelocks of POST /api/swap/initiate, request by request
InitiateTimelocks ==
    ApiInitiateTimelocks /\ UNCHANGED <<starknetVars, btcVars, coord, commit, heightVars, funding, script_calls, serviceVars, created_htlc, store, backend_swaps, submitting, polled>>

QuoteNext == InitiateTimelocks

QuoteSpec == Init /\ [][QuoteNext]_vars

\* The block height cache under calls, the clock and new blocks
GetBlockHeight == getBlockHeight /\ UNCHANGED <<starknetVars, btcVars, coord, commit, quote, funding, script_calls, serviceVars, created_htlc, store, backend_swaps, submitting, polled>>
HeightClock == DateTick /\ UNCHANGED <<starknetVars, btcVars, coord, commit, quote, funding, script_calls, serviceVars, created_htlc, store, backend_swaps, submitting, polled>>
HeightBlock == LedgerBlock /\ UNCHANGED <<starknetVars, btcVars, coord, commit, quote, funding, script_calls, serviceVars, created_htlc, store, backend_swaps, submitting, polled>>

OtherThanHeight ==
    <<starknetVars, btcVars, coord, commit, quote, funding, script_calls, serviceVars, store, backend_swaps, submitting, polled>>

InitiateHtlc == ApiInitiateHtlc /\ UNCHANGED OtherThanHeight
HtlcCreate == ApiHtlcCreate /\ UNCHANGED OtherThanHeight

HeightNext == GetBlockHeight \/ HeightClock \/ HeightBlock \/ InitiateHtlc \/ HtlcCreate

HeightSpec == Init /\ [][HeightNext]_vars

\* createHTLCFundingTx, call by call
CreateFunding ==
    /\ CreateFundingTx
    /\ UNCHANGED <<starknetVars, btcVars, coord, commit, quote, heightVars, script_calls, serviceVars, created_htlc, store, backend_swaps, submitting, polled>>

FundingNext == CreateFunding

FundingSpec == Init /\ [][FundingNext]_vars

\* createHTLCScript, call after call
CompileScript ==
    /\ CreateScript
    /\ UNCHANGED <<starknetVars, btcVars, coord, commit, quote, heightVars, funding, serviceVars, created_htlc, store, backend_swaps, submitting, polled>>

ScriptNext == CompileScript

ScriptSpec == Init /\ [][ScriptNext]_vars

\* The HTLC service under any sequence of calls
OtherThanService ==
    <<starknetVars, btcVars, coord, commit, quote, heightVars, funding, script_calls, created_htlc, store, backend_swaps, submitting, polled>>

CreateHtlc == createHTLC /\ UNCHANGED OtherThanService
LockHtlc == lockHTLC /\ UNCHANGED OtherThanService
CompleteHtlc == completeHTLC /\ UNCHANGED OtherThanService
RefundHtlc == refundHTLC /\ UNCHANGED OtherThanService
CheckExpired == checkExpiredHTLCs /\ UNCHANGED OtherThanService
ServiceClock == ServiceTick /\ UNCHANGED OtherThanService

ServiceNext ==
    \/ CreateHtlc \/ LockHtlc \/ CompleteHtlc \/ RefundHtlc \/ CheckExpired
    \/ ServiceClock

ServiceSpec == Init /\ [][ServiceNext]_vars

\* One client with several swaps: the two halves of handleSubmit, the poll of
\* SwapHistory and the handlers of SwapStatus on any swap of the store
OtherThanClient ==
    <<btcVars, coord, commit, quote, heightVars, funding, script_calls, serviceVars, created_htlc>>

SubmitRequest == handleSubmitRequest /\ UNCHANGED OtherThanClient
SubmitAddSwap == handleSubmitAddSwap /\ UNCHANGED OtherThanClient
PollRequest == getAllSwaps /\ UNCHANGED OtherThanClient
PollApply == fetchSwaps /\ UNCHANGED OtherThanClient
ClientLock == (\E i \in DOMAIN store.swaps : handleLockOnStarknetAt(i)) /\ UNCHANGED OtherThanClient
ClientComplete == (\E i \in DOMAIN store.swaps : handleCompleteAt(i)) /\ UNCHANGED OtherThanClient

ClientNext ==
    \/ SubmitRequest \/ SubmitAddSwap \/ PollRequest \/ PollApply
    \/ ClientLock \/ ClientComplete

ClientSpec == Init /\ [][ClientNext]_vars

----------------------------------------------------------------------------
\* Claims about the StealthSwap contract

IsCall(op) == last.op = op
IsAccepted(op) == last.op = op /\ last.err = Ok
IsReverted(op, err) == last.op = op /\ last.err = err
LastSwap == get_swap(last.swap_id)

AllowedStatusChange ==
    {<<Pending, Locked>>, <<Locked, Completed>>, <<Pending, Refunded>>, <<Locked, Refunded>>}

StatusStep ==
    \A id \in (DOMAIN swaps) \cup (DOMAIN swaps') :
        LET old == get_swap(id).status
            new == swaps'[id].status
        IN  /\ id \in DOMAIN swaps'
            /\ new # Expired
            /\ new = old \/ <<old, new>> \in AllowedStatusChange

\* C1: across every call (accepted or reverted) and every block, a stored
\* status changes only along Pending->Locked, Locked->Completed,
\* Pending->Refunded, Locked->Refunded, and is never Expired.
C1_StatusTransitions == [][StatusStep]_vars

C1_Witness ==
    /\ IsAccepted("complete_swap")
    /\ LastSwap.status = Completed

C3_CompleteIffPreimage ==
    /\ \A swap_id \in SwapIds, preimage \in Preimages :
        LET swap == get_swap(swap_id) IN
        (swap.status = Locked /\ now <= swap.timelock) =>
            complete_swap_check(swap, preimage, now) =
                IF poseidon_hash_span(<<preimage>>) = swap.hashlock
                THEN Ok ELSE "Invalid preimage"
    /\ IsAccepted("complete_swap") =>
        /\ LastSwap.status = Completed
        /\ poseidon_hash_span(<<last.call.preimage>>) = LastSwap.hashlock
    /\ IsReverted("complete_swap", "Invalid preimage") => LastSwap.status = Locked

C3_Witness ==
    /\ IsReverted("complete_swap", "Invalid preimage")
    /\ LastSwap.status = Locked
    /\ now <= LastSwap.timelock

Terminal(status) == status \in {Completed, Refunded}

\* C4: once a swap is Completed or Refunded no step changes its record, and at
\* every timestamp and for every caller lock_swap answers 'Swap not pending',
\* complete_swap 'Swap not locked' and refund_swap 'Cannot refund'.
C4_TerminalStates ==
    /\ [][\A id \in DOMAIN swaps :
            Terminal(swaps[id].status) => (id \in DOMAIN swaps' /\ swaps'[id] = swaps[id])]_vars
    /\ [](\A id \in DOMAIN swaps : Terminal(swaps[id].status) =>
            \A caller \in Addresses, t \in 0..MaxTime :
                /\ \A proof \in SwapProofs :
                    lock_swap_check(swaps[id], proof, caller, t, used_nullifiers)
                        = "Swap not pending"
                /\ \A preimage \in Preimages :
                    complete_swap_check(swaps[id], preimage, t) = "Swap not locked"
                /\ refund_swap_check(swaps[id], caller, t) = "Cannot refund")

C4_Witness ==
    /\ IsReverted("refund_swap", "Cannot refund")
    /\ LastSwap.status = Completed
    /\ now > LastSwap.timelock

\* C5: on a Pending or Locked swap refund_swap answers 'Timelock not expired'
\* while now <= timelock (now = timelock included) and the status is kept;
\* with now > timelock and the initiator calling it is accepted and the
\* status is Refunded.
C5_RefundAfterTimelock ==
    /\ \A swap_id \in SwapIds, caller \in Addresses :
        LET swap == get_swap(swap_id) IN
        swap.status \in {Pending, Locked} =>
            /\ now <= swap.timelock =>
                refund_swap_check(swap, caller, now) = "Timelock not expired"
            /\ (now > swap.timelock /\ caller = swap.initiator) =>
                refund_swap_check(swap, caller, now) = Ok
    /\ IsAccepted("refund_swap") =>
        /\ LastSwap.status = Refunded
        /\ now > LastSwap.timelock
        /\ last.call.caller = LastSwap.initiator
    /\ IsReverted("refund_swap", "Timelock not expired") =>
        /\ LastSwap.status \in {Pending, Locked}
        /\ now <= LastSwap.timelock

\* The initiator refunds a swap that had been locked.
C5_Witness ==
    /\ IsAccepted("refund_swap")
    /\ LastSwap.status = Refunded
    /\ used_nullifiers # {}
    /\ now = LastSwap.timelock + 1

\* C8: initiate_swap is accepted exactly when timelock > block timestamp;
\* otherwise it answers 'Timelock must be in future' and writes nothing; an
\* accepted call stores a Pending swap whose initiator is the caller.
C8_InitiateTimelockFuture ==
    /\ [](/\ \A timelock \in Timelocks :
                initiate_swap_check(timelock, now) =
                    IF timelock > now THEN Ok ELSE "Timelock must be in future"
          /\ IsAccepted("initiate_swap") =>
                /\ last.swap_id \in DOMAIN swaps
                /\ LastSwap.timelock > now
                /\ LastSwap.status = Pending
                /\ LastSwap.initiator = last.call.caller
                /\ LastSwap.created_at = now)
    /\ [][(last'.op = "initiate_swap" /\ now' = now) =>
            IF last'.err = Ok
            THEN /\ swap_count' = swap_count + 1
                 /\ DOMAIN swaps' = (DOMAIN swaps) \cup {last'.swap_id}
                 /\ last'.swap_id \notin DOMAIN swaps
            ELSE /\ last'.err = "Timelock must be in future"
                 /\ UNCHANGED contractVars]_vars

C8_Witness ==
    /\ IsReverted("initiate_swap", "Timelock must be in future")
    /\ now > 0
    /\ swap_count = 0
    /\ swaps = <<>>

\* C9: on a Pending, unexpired swap lock_swap by an address that is neither
\* initiator nor participant answers 'Not authorized'; the swap stays Pending,
\* no nullifier is marked, and an accepted lock_swap comes from one of the two.
C9_LockUnauthorized ==
    /\ \A swap_id \in SwapIds, caller \in Addresses, proof \in SwapProofs :
        LET swap == get_swap(swap_id) IN
        ( /\ swap.status = Pending
          /\ now <= swap.timelock
          /\ caller \notin {swap.initiator, swap.participant} )
        => lock_swap_check(swap, proof, caller, now, used_nullifiers) = "Not authorized"
    /\ IsReverted("lock_swap", "Not authorized") =>
        /\ LastSwap.status = Pending
        /\ used_nullifiers = accepted_nullifiers
    /\ IsAccepted("lock_swap") =>
        last.call.caller \in {LastSwap.initiator, LastSwap.participant}

C9_Witness ==
    /\ IsReverted("lock_swap", "Not authorized")
    /\ last.swap_id \in DOMAIN swaps
    /\ LastSwap.status = Pending
    /\ used_nullifiers = {}

\* C10: every accepted lock_swap carries a proof for which the Verifier's
\* predicate holds (commitment equal to the swap's amount_hash, nullifier not
\* yet used, proof_hash non-zero).
C10_LockOnlyVerified ==
    [][(last'.op = "lock_swap" /\ last'.err = Ok /\ now' = now) =>
        verify_swap_proof(last'.call.proof, get_swap(last'.swap_id).amount_hash,
                          used_nullifiers)]_vars

----------------------------------------------------------------------------
\* Claims about the Bitcoin HTLC transactions

IsClaimWitness(tx) ==
    /\ Len(tx.witness) = 4
    /\ CheckSig(tx.witness[1], tx.witness[1].pubkey, tx)
    /\ tx.witness[2] \in BtcPreimages
    /\ tx.witness[3] = <<1>>
    /\ tx.witness[4] = htlc.script

IsRefundWitness(tx) ==
    /\ Len(tx.witness) = 3
    /\ CheckSig(tx.witness[1], tx.witness[1].pubkey, tx)
    /\ tx.witness[2] = <<>>
    /\ tx.witness[3] = htlc.script
    /\ tx.body.locktime = htlc.timelock

\* C6: for one funded HTLC output, every claim transaction createClaimTx
\* built and every refund transaction createRefundTx built spend the same
\* outpoint (funding txid, vout), the claim through the witness signature +
\* preimage + 0x01, the refund through the witness signature + empty
\* selector with nLockTime = timelock; the ledger never has both a claim and
\* a refund confirmed, and at most one spend of the output at all.
C6_ClaimRefundExclusive ==
    /\ \A c \in claim_txs : Outpoint(c) = <<htlc.txid, htlc.vout>> /\ IsClaimWitness(c)
    /\ \A r \in refund_txs : Outpoint(r) = <<htlc.txid, htlc.vout>> /\ IsRefundWitness(r)
    /\ \A c \in claim_txs, r \in refund_txs :
        /\ Outpoint(c) = Outpoint(r)
        /\ ~(c \in confirmed /\ r \in confirmed)
    /\ Cardinality(confirmed) <= 1

\* A claim and a refund were built, the refund is signed by the sender and
\* its timelock has been reached, and the claim is the confirmed spend.
C6_Witness ==
    \E c \in claim_txs, r \in refund_txs :
        /\ c \in confirmed
        /\ r \notin confirmed
        /\ r.witness[1].pubkey = PubKey("sender")
        /\ r.body.locktime <= btc_height

----------------------------------------------------------------------------
\* Claims about the coordination of the two chains

\* C7: the claim transaction carrying the preimage is never produced after
\* the contract-side timelock has passed, and complete_swap is never
\* submitted after the Bitcoin-side timelock height has been reached.
C7_NoRevealAfterOtherTimelock ==
    [][ /\ (claim_txs' # claim_txs) =>
               \A swapId \in DOMAIN swaps : now <= swaps[swapId].timelock
        /\ (last'.op = "complete_swap" /\ last' # last) =>
               btc_height < coord.btc.timelock ]_vars

----------------------------------------------------------------------------
\* Further claims about the StealthSwap contract

\* C11: each of the four operations is atomic: a call that fails a check
\* leaves every swap record, swap_count, the per-user index and
\* used_nullifiers as they were (so a lock_swap rejected for 'Invalid
\* commitment' does not consume its nullifier); an accepted lock_swap marks
\* its nullifier and stores Locked in the same step.
C11_OperationsAtomic ==
    [][(last'.op # "none") =>
        IF last'.err # Ok
        THEN UNCHANGED contractVars
        ELSE (last'.op = "lock_swap") =>
                /\ last'.call.proof.nullifier \notin used_nullifiers
                /\ used_nullifiers' = used_nullifiers \cup {last'.call.proof.nullifier}
                /\ get_swap(last'.swap_id).status = Pending
                /\ swaps'[last'.swap_id].status = Locked]_vars

\* A lock_swap was rejected for 'Invalid commitment' on a Pending swap and no
\* nullifier is marked.
C11_Witness ==
    /\ IsReverted("lock_swap", "Invalid commitment")
    /\ LastSwap.status = Pending
    /\ used_nullifiers = {}

\* C12: the used-nullifier set is append-only and exact: a nullifier is
\* marked exactly when an accepted lock_swap carried it, no step unmarks one
\* (also not the refund or completion of the swap it locked), and an accepted
\* lock_swap never carries a nullifier an earlier accepted one carried.
C12_NullifierSetExact ==
    /\ [](used_nullifiers = accepted_nullifiers)
    /\ [][/\ used_nullifiers \subseteq used_nullifiers'
          /\ (last'.op = "lock_swap" /\ last'.err = Ok) =>
                /\ last'.call.proof.nullifier \notin accepted_nullifiers
                /\ used_nullifiers' = used_nullifiers \cup {last'.call.proof.nullifier}
          /\ (last'.op # "lock_swap") => used_nullifiers' = used_nullifiers]_vars

\* Two swaps were locked with two nullifiers, one of them has since been
\* completed or refunded, and both nullifiers are still marked.
C12_Witness ==
    /\ Cardinality(used_nullifiers) = 2
    /\ Cardinality(DOMAIN swaps) = 2
    /\ \E swap_id \in DOMAIN swaps : swaps[swap_id].status \in {Completed, Refunded}
    /\ \A swap_id \in DOMAIN swaps : swaps[swap_id].status # Pending

\* C13: after the timelock, refund_swap on a Pending or Locked swap by any
\* address other than the initiator, the participant included, answers
\* 'Only initiator can refund' and the status is kept.
C13_RefundOnlyInitiator ==
    /\ \A swap_id \in DOMAIN swaps, caller \in Addresses :
        LET swap == swaps[swap_id] IN
        ( /\ swap.status \in {Pending, Locked}
          /\ now > swap.timelock
          /\ caller # swap.initiator )
        => refund_swap_check(swap, caller, now) = "Only initiator can refund"
    /\ IsReverted("refund_swap", "Only initiator can refund") =>
        /\ LastSwap.status \in {Pending, Locked}
        /\ now > LastSwap.timelock
    /\ IsAccepted("refund_swap") => last.call.caller = LastSwap.initiator

\* A refund of an expired Locked swap whose participant is another address
\* than its initiator was rejected for the caller.
C13_Witness ==
    /\ IsReverted("refund_swap", "Only initiator can refund")
    /\ LastSwap.status = Locked
    /\ LastSwap.participant # LastSwap.initiator
    /\ now > LastSwap.timelock

\* C14 as stated: once now > timelock, refund_swap by the initiator or by the
\* participant on a Pending or Locked swap is accepted.
C14_EitherPartyRefunds ==
    \A swap_id \in DOMAIN swaps :
        LET swap == swaps[swap_id] IN
        (swap.status \in {Pending, Locked} /\ now > swap.timelock) =>
            \A caller \in {swap.initiator, swap.participant} :
                refund_swap_check(swap, caller, now) = Ok

\* C14, amended: once now > timelock, refund_swap by the initiator on a
\* Pending or Locked swap is accepted and stores Refunded; by the participant
\* (when it is another address) it is rejected, and every accepted refund
\* step comes from the initiator and moves Pending or Locked to Refunded.
C14_InitiatorRefundsExpired ==
    /\ [](\A swap_id \in DOMAIN swaps :
            LET swap == swaps[swap_id] IN
            (swap.status \in {Pending, Locked} /\ now > swap.timelock) =>
                /\ refund_swap_check(swap, swap.initiator, now) = Ok
                /\ swap.participant # swap.initiator =>
                      refund_swap_check(swap, swap.participant, now) # Ok)
    /\ [][(last'.op = "refund_swap" /\ last'.err = Ok) =>
            /\ last'.call.caller = get_swap(last'.swap_id).initiator
            /\ now > get_swap(last'.swap_id).timelock
            /\ get_swap(last'.swap_id).status \in {Pending, Locked}
            /\ swaps'[last'.swap_id].status = Refunded]_vars

\* The initiator refunded an expired swap it shares with another participant.
C14_Witness ==
    /\ IsAccepted("refund_swap")
    /\ LastSwap.status = Refunded
    /\ LastSwap.participant # LastSwap.initiator
    /\ last.call.caller = LastSwap.initiator

\* C15: swap ids are unique: swap_count goes up by exactly 1 on every
\* accepted initiate_swap and on no other step; the id is the hash of
\* (caller, participant, amount_hash, swap_count, timestamp); an accepted
\* initiate_swap returns an id no swap has yet and leaves every existing
\* record as it was, also for identical arguments in the same block.
C15_SwapIdsUnique ==
    /\ [](/\ swap_count = Cardinality(DOMAIN swaps)
          /\ \A swap_id \in DOMAIN swaps :
                LET swap == swaps[swap_id] IN
                /\ swap.id = swap_id
                /\ \E count \in 0..(swap_count - 1) :
                      swap_id = NewSwapId(swap.initiator, swap.participant,
                                          swap.amount_hash, count, swap.created_at))
    /\ [][IF last'.op = "initiate_swap" /\ last'.err = Ok
          THEN /\ swap_count' = swap_count + 1
               /\ last'.swap_id \notin DOMAIN swaps
               /\ last'.swap_id =
                    NewSwapId(last'.call.caller, swaps'[last'.swap_id].participant,
                              swaps'[last'.swap_id].amount_hash, swap_count, now)
               /\ \A swap_id \in DOMAIN swaps : swaps'[swap_id] = swaps[swap_id]
          ELSE swap_count' = swap_count]_vars

\* Two swaps were initiated with identical arguments in the same block.
C15_Witness ==
    \E id1 \in DOMAIN swaps, id2 \in DOMAIN swaps :
        /\ id1 # id2
        /\ swaps[id1].initiator = swaps[id2].initiator
        /\ swaps[id1].participant = swaps[id2].participant
        /\ swaps[id1].amount_hash = swaps[id2].amount_hash
        /\ swaps[id1].hashlock = swaps[id2].hashlock
        /\ swaps[id1].timelock = swaps[id2].timelock
        /\ swaps[id1].created_at = swaps[id2].created_at

\* C16: lock_swap, complete_swap and refund_swap change only the status of
\* the swap they name (and, for lock_swap, the used-nullifier set): every
\* other field of that swap, every other swap, swap_count and the per-user
\* index stay as they were; no step removes a swap record, and a Completed or
\* Refunded record reads the same through get_swap ever after.
C16_OnlyStatusChanges ==
    [][/\ \A swap_id \in DOMAIN swaps :
            /\ swap_id \in DOMAIN swaps'
            /\ Terminal(swaps[swap_id].status) => get_swap(swap_id)' = get_swap(swap_id)
       /\ (last'.op \in {"lock_swap", "complete_swap", "refund_swap"}) =>
            /\ DOMAIN swaps' = DOMAIN swaps
            /\ \A swap_id \in DOMAIN swaps :
                  swaps'[swap_id] =
                      IF swap_id = last'.swap_id
                      THEN [swaps[swap_id] EXCEPT !.status = swaps'[swap_id].status]
                      ELSE swaps[swap_id]
            /\ UNCHANGED <<swap_count, user_swap_count, user_swaps>>
            /\ (last'.op # "lock_swap") => UNCHANGED used_nullifiers]_vars

\* Of two swaps one was just completed, some time after it was created, while
\* the other is still open.
C16_Witness ==
    /\ IsAccepted("complete_swap")
    /\ LastSwap.status = Completed
    /\ LastSwap.created_at < now
    /\ \E swap_id \in DOMAIN swaps :
        swap_id # last.swap_id /\ swaps[swap_id].status \in {Pending, Locked}

\* The value of swap_count an id was derived from
CreationIndex(swap_id) == swap_id[2][4]

\* C17: for every address u, get_user_swaps(u) lists, in creation order and
\* with no id repeated, exactly the ids of the swaps whose initiator or
\* participant is u (also when a caller names itself as participant), and
\* user_swap_count(u) is the length of that list.
C17_UserSwapsExact ==
    \A user \in Addresses :
        LET list == get_user_swaps(user) IN
        /\ Len(list) = UserCount(user_swap_count, user)
        /\ {list[i] : i \in 1..Len(list)} =
              {swap_id \in DOMAIN swaps :
                  user \in {swaps[swap_id].initiator, swaps[swap_id].participant}}
        /\ \A i \in 1..Len(list), j \in 1..Len(list) :
              i < j => CreationIndex(list[i]) < CreationIndex(list[j])

\* C18: is_swap_expired(id) is true exactly when now > swap.timelock and the
\* swap is neither Completed nor Refunded; for a Completed or Refunded swap
\* it is false whatever the time.
C18_ExpiredDerived ==
    \A swap_id \in DOMAIN swaps :
        is_swap_expired(swap_id) <=>
            (now > swaps[swap_id].timelock /\ ~Terminal(swaps[swap_id].status))

----------------------------------------------------------------------------
\* Further claims about the coordinator

\* C19: POST /api/swap/initiate derives both hashlocks from one 32-byte
\* secret: btc.hashlock is SHA-256 of secrets.preimage and is the hashlock
\* compiled into the HTLC script, secrets.starknetPreimage is the first 31
\* bytes of that preimage, and the contract swap initiated with the
\* response's starknet.hashlock carries Poseidon([starknetPreimage]), so that
\* complete_swap(starknetPreimage) passes its hashlock check.
C19_HashlocksFromOneSecret ==
    coord # NoRecord =>
        /\ coord.btc.hashlock = SHA256(coord.secrets.preimage)
        /\ computeHashlock(coord.secrets.preimage) = coord.btc.htlcScript[3]
        /\ coord.secrets.starknetPreimage = coord.secrets.preimage[1]
        /\ \A swap_id \in DOMAIN swaps :
            LET swap == swaps[swap_id] IN
            /\ swap.hashlock = poseidon_hash_span(<<coord.secrets.starknetPreimage>>)
            /\ (swap.status = Locked /\ now <= swap.timelock) =>
                  complete_swap_check(swap, coord.secrets.starknetPreimage, now) = Ok
        /\ IsCall("complete_swap") => last.err \in {Ok, "Swap expired"}

\* The contract swap was completed with the starknetPreimage of the record
\* and the claim transaction carrying the 32-byte preimage was confirmed.
C19_Witness ==
    /\ coord # NoRecord
    /\ IsAccepted("complete_swap")
    /\ last.call.preimage = coord.secrets.starknetPreimage
    /\ \E tx \in confirmed : tx.witness[2] = coord.secrets.preimage

\* C20: for every amount below 2^64 and every blinding factor, the
\* commitment the coordinator computes (amountCommitment of POST
\* /api/swap/initiate, commitment of generateAmountProof) equals the
\* contract's verify_amount_commitment(amount, blinding).
C20_CommitmentRoundTrip ==
    ( /\ commit.coordinator # NoCommitment
      /\ commit.contract # NoCommitment
      /\ commit.coordinator.amount = commit.contract.amount
      /\ commit.coordinator.blinding = commit.contract.blinding )
    => commit.coordinator.commitment = commit.contract.commitment

\* The duration a request asks for, in seconds, as C21 reads it
RequestedDuration ==
    IF quote.timelockMinutes # Absent
    THEN quote.timelockMinutes[1] * 60
    ELSE quote.lockBlocks * 600

\* C21: starknet.timelockTimestamp = now + requested_duration + 300,
\* with requested_duration = timelockMinutes x 60 when timelockMinutes is
\* given and lockBlocks x 600 otherwise, and it is always strictly in the
\* future at initiation.
C21_TimelockAlwaysFuture ==
    quote # NoQuote =>
        /\ quote.timelockTimestamp = quote.now + RequestedDuration + 300
        /\ quote.timelockTimestamp > quote.now

\* C30: for every input of POST /api/swap/initiate the contract-side
\* timelock is not earlier than the nominal expiry of the Bitcoin-side
\* timelock: starknet.timelockTimestamp - now >= lockBlocks x 600 seconds.
C30_ContractTimelockCoversBtc ==
    quote # NoQuote =>
        quote.timelockTimestamp - quote.now >= quote.lockBlocks * 600

\* C22: every submission and re-submission to the contract for one
\* coordination record carries the commitment and the hashlock that POST
\* /api/swap/initiate returned for it: neither handleSubmit nor
\* handleRetryStarknetInit submits a different or freshly generated one.
C22_ResubmitsSameValues ==
    coord # NoRecord =>
        \A swap_id \in DOMAIN swaps :
            /\ swaps[swap_id].hashlock = toFelt252(coord.response.hashlock)
            /\ swaps[swap_id].amount_hash = coord.response.amountCommitment

\* C23: on every path that reveals the secret the coordination record is in
\* a completing or completed state before the secret is on a chain: no state
\* has a contract swap Completed, or a confirmed claim transaction, while the
\* record's status is neither 'completing' nor 'completed'.
C23_RevelationRecordedFirst ==
    (coord # NoRecord /\ coord.status \notin {"completing", "completed"}) =>
        /\ \A swap_id \in DOMAIN swaps : swaps[swap_id].status # Completed
        /\ \A tx \in confirmed : ~IsClaimWitness(tx)

\* C24: the secrets are returned only by POST /api/swap/initiate: GET
\* /api/swap/:id returns no secrets, in any status of the swap.
C24_SecretsReturnedOnce ==
    coord # NoRecord => ApiGetSwap.secrets = Absent

\* C25: getBlockHeight always returns a value; during the cooldown after a
\* failure it returns the cached height, within 30 s of a successful fetch
\* it answers from the cache, and every value it returns is a height the
\* ledger reported at some earlier time.
C25_ReturnsReportedHeight ==
    returned_height # NoHeight => returned_height \in reported_heights

\* Sum of the values of a list of UTXOs or outputs
RECURSIVE SumValues(_)
SumValues(list) ==
    IF Len(list) = 0 THEN 0 ELSE list[1].value + SumValues(Tail(list))

\* C26: createHTLCFundingTx takes the shortest prefix of the UTXO list whose
\* sum is >= amount + fee (fee = feeRate x 150); it fails with 'Insufficient
\* funds' iff the sum of all UTXOs is below amount + fee, and with the
\* no-UTXO error iff the list is empty; on success the first output pays
\* exactly amount to the HTLC address, a change output of input_sum - amount
\* - fee to the sender exists iff that change exceeds 546, and the outputs
\* never exceed the inputs.
C26_FundingSelection ==
    funding # NoFunding =>
        LET utxos == funding.utxos
            r == funding.result
            fee == funding.feeRate * 150
            totalNeeded == funding.amountSats + fee
        IN  /\ (r.err = "No UTXOs found") <=> (Len(utxos) = 0)
            /\ (r.err = "Insufficient funds") <=>
                  (Len(utxos) > 0 /\ SumValues(utxos) < totalNeeded)
            /\ r.err = Ok =>
                LET inputs == r.tx.inputs
                    outputs == r.tx.outputs
                    change == SumValues(inputs) - funding.amountSats - fee
                IN  /\ \E k \in 1..Len(utxos) :
                        /\ inputs = SubSeq(utxos, 1, k)
                        /\ SumValues(SubSeq(utxos, 1, k)) >= totalNeeded
                        /\ \A j \in 1..(k - 1) : SumValues(SubSeq(utxos, 1, j)) < totalNeeded
                    /\ outputs[1] = [script |-> p2wsh(funding.htlcScript),
                                     value |-> funding.amountSats]
                    /\ IF change > 546
                       THEN outputs = <<outputs[1],
                                        [script |-> p2wpkh(PubKey(funding.senderWIF)),
                                         value |-> change]>>
                       ELSE Len(outputs) = 1
                    /\ SumValues(outputs) <= SumValues(inputs)

\* Two of three UTXOs are selected and the change is paid back.
C26_Witness ==
    /\ funding # NoFunding
    /\ Len(funding.utxos) = 3
    /\ funding.result.err = Ok
    /\ Len(funding.result.tx.inputs) = 2
    /\ Len(funding.result.tx.outputs) = 2

C28_ServiceClaimRefundExclusive ==
    [][\A id \in DOMAIN htlcs :
          /\ htlcs[id].status = "completed" =>
                htlcs'[id].status \notin {"refunded", "expired"}
          /\ htlcs[id].status = "refunded" => htlcs'[id].status # "completed"]_vars

\* The ids initiate_swap can return within the bounds
PossibleSwapIds ==
    {NewSwapId(caller, participant, amount_hash, count, timestamp) :
        caller \in Initiators, participant \in Parties, amount_hash \in AmountHashes,
        count \in 0..(MaxSwaps - 1), timestamp \in 0..MaxTime}

\* C29: no swap is stuck: for every Pending or Locked swap whose timelock the
\* block timestamp has passed, refund_swap by its initiator passes every
\* check; and, time advancing and the initiator's refund being fair, every
\* initiated swap eventually is Completed or Refunded.
C29_NoSwapStuck ==
    /\ [](\A id \in DOMAIN swaps :
            (swaps[id].status \in {Pending, Locked} /\ now > swaps[id].timelock) =>
                refund_swap_check(swaps[id], swaps[id].initiator, now) = Ok)
    /\ \A id \in PossibleSwapIds :
          (id \in DOMAIN swaps) ~> (id \in DOMAIN swaps /\ Terminal(swaps[id].status))

\* A swap that was locked and had expired has been refunded by its initiator.
C29_Witness ==
    /\ IsAccepted("refund_swap")
    /\ LastSwap.status = Refunded
    /\ now > LastSwap.timelock
    /\ last.call.caller = LastSwap.initiator
    /\ accepted_nullifiers # {}
    /\ \A id \in DOMAIN swaps : Terminal(swaps[id].status)

\* C36: at no block timestamp can complete_swap (or lock_swap) and
\* refund_swap both succeed on one swap: up to now = timelock included every
\* refund is refused, and from now = timelock + 1 on every lock and every
\* completion is refused.
C36_CompleteRefundDisjoint ==
    \A swap_id \in SwapIds, caller \in Addresses, refunder \in Addresses,
       preimage \in Preimages, proof \in SwapProofs :
        LET swap == get_swap(swap_id)
            locks == lock_swap_check(swap, proof, caller, now, used_nullifiers) = Ok
            completes == complete_swap_check(swap, preimage, now) = Ok
            refunds == refund_swap_check(swap, refunder, now) = Ok
        IN  /\ ~(completes /\ refunds)
            /\ ~(locks /\ refunds)
            /\ now <= swap.timelock => ~refunds
            /\ now > swap.timelock => (~locks /\ ~completes)

\* A swap is completed in the very block whose timestamp is its timelock.
C36_Witness ==
    /\ IsAccepted("complete_swap")
    /\ LastSwap.status = Completed
    /\ now = LastSwap.timelock

\* C37: lock_swap, complete_swap and refund_swap on a swap id that no
\* initiate_swap returned always fail and change no state, for every caller,
\* proof, preimage and block timestamp: the record read is the all-default
\* swap (Pending, timelock 0, zero initiator).
C37_UnknownIdRejected ==
    /\ [](/\ UnknownId \notin DOMAIN swaps
          /\ get_swap(UnknownId) = DefaultSwap
          /\ \A caller \in Addresses, proof \in SwapProofs, preimage \in Preimages :
                /\ lock_swap_check(DefaultSwap, proof, caller, now, used_nullifiers) # Ok
                /\ complete_swap_check(DefaultSwap, preimage, now) # Ok
                /\ refund_swap_check(DefaultSwap, caller, now) # Ok)
    /\ [][(last'.swap_id = UnknownId
           /\ last'.op \in {"lock_swap", "complete_swap", "refund_swap"}) =>
             (last'.err # Ok /\ UNCHANGED <<contractVars, now>>)]_vars

\* refund_swap on the unknown id after timestamp 0: status and time pass, the
\* caller is not the zero initiator.
C37_Witness ==
    /\ IsReverted("refund_swap", "Only initiator can refund")
    /\ last.swap_id = UnknownId
    /\ now > 0
    /\ swaps # <<>>

\* C31: every HTLC created by POST /api/swap/initiate or POST
\* /api/htlc/create has timelock = h + lockBlocks with h a height the ledger
\* reported, so the timelock is strictly above the chain height at creation,
\* also when the height query fails or is in cooldown before any height was
\* cached.
C31_TimelockAboveHeight ==
    created_htlc # NoCreatedHtlc =>
        /\ created_htlc.timelock = created_htlc.currentHeight + created_htlc.lockBlocks
        /\ created_htlc.currentHeight \in reported_heights
        /\ created_htlc.timelock > created_htlc.tip

\* C32: GET /api/swap/:id reports the contract-side parameters POST
\* /api/swap/initiate returned: starknet.hashlock is the Poseidon hashlock of
\* starknetPreimage and starknet.timelockTimestamp is the timestamp computed
\* at initiation, margin included.
C32_GetSwapMatchesInitiate ==
    coord # NoRecord =>
        /\ ApiGetSwap.starknet.hashlock = coord.response.hashlock
        /\ ApiGetSwap.starknet.hashlock =
              poseidon_hash_span(<<coord.secrets.starknetPreimage>>)
        /\ ApiGetSwap.starknet.timelockTimestamp = coord.response.timelockTimestamp

\* The position of a record status on the path initiated -> btc_tx_created /
\* btc_funded -> starknet_locked -> completing -> completed
StatusRank(status) ==
    CASE status = "initiated" -> 0
      [] status \in {"btc_tx_created", "btc_funded"} -> 1
      [] status = "starknet_locked" -> 2
      [] status = "completing" -> 3
      [] status = "completed" -> 4

\* C38: the status of a coordination record only moves forward along
\* initiated -> btc_tx_created / btc_funded -> starknet_locked -> completing
\* -> completed: no request moves it back, and once it is 'completed' no
\* request changes it.
C38_RecordStatusForward ==
    [][coord # NoRecord =>
          /\ StatusRank(coord'.status) >= StatusRank(coord.status)
          /\ coord.status = "completed" => coord'.status = "completed"]_vars

----------------------------------------------------------------------------
\* Claims about the client over several swaps

\* The contract swap created by the transaction of a swap of the store
OwnSwap(swap) == get_swap(swap.starknetTxHash[1])

\* C33: handleComplete for a swap of the store uses the preimage returned at
\* that swap's own initiation: whenever the swap's own contract swap is Locked
\* and unexpired, the preimage handleComplete would use is the one of the
\* swap's record, and its hash is the hashlock of the contract swap.
C33_CompleteUsesOwnPreimage ==
    \A i \in DOMAIN store.swaps :
        LET swap == store.swaps[i]
        IN  (/\ swap.starknetTxHash # Absent
             /\ OwnSwap(swap).status = Locked
             /\ now <= OwnSwap(swap).timelock)
            => /\ preimageToUse(store, swap) =
                     Given(BackendSwap(swap.id).secrets.starknetPreimage)
               /\ toFelt252(poseidon_hash_span(<<preimageToUse(store, swap)[1]>>)) =
                     toFelt252(OwnSwap(swap).hashlock)

\* C34: a starknetSwapId stored in a swap of the store is the id of the
\* contract swap created by that swap's own initiate transaction.
C34_ResolvesOwnSwap ==
    \A i \in DOMAIN store.swaps :
        LET swap == store.swaps[i]
        IN  swap.starknetSwapId # Absent =>
                /\ swap.starknetTxHash # Absent
                /\ swap.starknetSwapId = swap.starknetTxHash

StoreIds(state) == {state.swaps[i].id : i \in DOMAIN state.swaps}

NoDuplicateIds ==
    \A i, j \in DOMAIN store.swaps :
        i # j => store.swaps[i].id # store.swaps[j].id

\* C39: under every interleaving of the poll with handleSubmit the swaps list
\* of the store never holds two entries with the same id, and no step drops
\* a swap from the list.
C39_PollKeepsListConsistent ==
    /\ []NoDuplicateIds
    /\ [][StoreIds(store) \subseteq StoreIds(store')]_vars

====
